---- MODULE Spec2Model ----
(***************************************************************************)
(* Model of the adaptive recommendation core of superclaude-auto-flags:    *)
(*   learning/learning_storage.py   (LearningStorage, the SQLite store)    *)
(*   learning/data_collector.py     (LearningDataCollector)                *)
(*   learning/learning_engine.py    (AdaptiveLearningEngine)               *)
(*   learning/feedback_processor.py (FeedbackProcessor)                    *)
(*   learning/performance_optimizer.py (PerformanceOptimizer)              *)
(*                                                                         *)
(* Numbers.  Python floats are modelled in fixed point:                    *)
(*   success rates, similarities, confidence scores : thousandths          *)
(*   preference weights                             : hundredths           *)
(*   learning weights                               : tenths               *)
(*   execution times and the clock                  : whole seconds        *)
(* Flag strings are sequences of flag tokens.                              *)
(***************************************************************************)
EXTENDS Integers, Sequences, FiniteSets, TLC

(***************************************************************************)
(* Bounds of the model                                                     *)
(***************************************************************************)
MaxInteractions == 2      \* rows ever inserted into interactions
MaxFeedback == 2          \* rows ever inserted into feedback
MaxUses == 2              \* cap on total_uses of a pattern row
MaxTicks == 2             \* number of clock advances
MaxCalls == 2             \* update_pattern_success calls per process
MaxBatchRuns == 2         \* process_batch_feedback runs
MaxLearnedUses == 3       \* learning runs while every cached usage_count is below this
MaxQueue == 2             \* enhancement tasks waiting in background_queue
MaxFeedbackCalls == 1     \* update_learning_from_feedback calls that find their interaction
MaxCallers == 2           \* threads calling get_quick_recommendation

(***************************************************************************)
(* Input alphabets                                                         *)
(***************************************************************************)
\* user inputs: '/sc:analyze security', '/sc:analyze plain', and 'plain' (no /sc: prefix)
UserInputs == {[sc |-> TRUE, command |-> "analyze", description |-> "security"],
               [sc |-> TRUE, command |-> "analyze", description |-> "plain"],
               [sc |-> FALSE, command |-> "", description |-> "plain"]}
Commands == {"analyze", "unknown"}
Descriptions == {"security", "plain"}
Patterns == {"analyze_security", "analyze_general", "unknown_general"}
Projects == {"projA", "projB"}
Me == "me"
Users == {Me, "other"}
CurrentProject == "projA"          \* hash of os.getcwd()
ProjectTypes == {"python_backend"}
CacheKeys == Commands \X Descriptions \X ProjectTypes
NoEntry == [absent |-> TRUE]
NoTask == [none |-> TRUE]
NoThread == 0
NoProcessor == [absent |-> TRUE]
NoProfile == [absent |-> TRUE]
Callers == 1..MaxCallers
NoRow == [absent |-> TRUE]
NoWeight == -1
NoId == 0
NoTime == -1
Epoch == 1000             \* clock reading when the model starts
RetentionDays == 90
OneDay == 86400
Min(a, b) == IF a < b THEN a ELSE b
Max(a, b) == IF a > b THEN a ELSE b

VARIABLES
  dbFile,                \* "ok" | "corrupt" : state of superclaude_learning.db
  interactions,          \* table interactions : id -> row
  nextId,                \* AUTOINCREMENT counter of interactions
  feedback,              \* table feedback : sequence of rows (append-only)
  pattern_success,       \* table pattern_success : pattern -> row | NoRow
  patternOrder,          \* pattern names in rowid order (the order SELECT * returns them)
  user_preferences,      \* table user_preferences : <<project, pattern>> -> weight | NoWeight
  now,                   \* wall clock, seconds
  ticks,                 \* number of clock advances so far
  current_interaction_id,   \* LearningDataCollector.current_interaction_id
  interaction_start_time,   \* LearningDataCollector.interaction_start_time
  engine_cache,          \* AdaptiveLearningEngine._pattern_cache : LearningPatterns in dict order
  cache_timestamp,       \* AdaptiveLearningEngine._cache_timestamp
  lastCall,              \* observation of the last public call: operation, exception, result
  recLog,                \* the latest get_adaptive_recommendation call, with the store it saw
  batchRuns,             \* number of process_batch_feedback runs completed
  feedbackCalls,         \* number of update_learning_from_feedback calls made
  pc,                    \* position of each concurrent updater
  loc,                   \* row read by each concurrent updater's SELECT
  lockHolder,            \* holder of each LearningStorage instance's _lock
  callsMade,             \* update_pattern_success calls each updater has made: total and with success=True
  concBase,              \* total_uses / successful_uses of the contested pattern before the concurrent calls
  pattern_cache,         \* PerformanceOptimizer.pattern_cache: cache key -> entry
  background_queue,      \* PerformanceOptimizer.background_queue
  is_processing,         \* PerformanceOptimizer.is_processing
  workerAlive,           \* the background thread has been started
  workerTask,            \* the task the background thread has popped and is enhancing
  createdAs,             \* per cache key, what the cache miss that created the entry returned
  lastServed,            \* per cache key, when its entry was last stored or returned by a hit
  callerPc,              \* position of each caller thread inside get_quick_recommendation
  callerLoc,             \* the recommendation each caller thread is about to return
  background_thread,     \* PerformanceOptimizer.background_thread: index into threads, or NoThread
  threads,               \* the threading.Thread objects created so far: started?, task in hand
  installation,          \* what the import of claude_sc_preprocessor found: "unknown" before the import
  rulesFile,             \* the file at rules_path: "missing" | "invalid_yaml" | "no_patterns"
  processor,             \* the SCCommandProcessor object, NoProcessor before construction
  user_profile_cache,    \* PersonalizedAdaptiveRecommender._user_profile_cache
  profile_cache_time     \* PersonalizedAdaptiveRecommender._profile_cache_time

storeVars == <<dbFile, interactions, nextId, feedback, pattern_success, patternOrder, user_preferences>>
clockVars == <<now, ticks>>
collectorVars == <<current_interaction_id, interaction_start_time>>
engineVars == <<engine_cache, cache_timestamp>>
obsVars == <<lastCall, recLog, batchRuns, feedbackCalls>>
concVars == <<pc, loc, lockHolder, callsMade, concBase>>
poolVars == <<callerPc, callerLoc, background_thread, threads>>
optVars == <<pattern_cache, background_queue, is_processing, workerAlive, workerTask, createdAs,
             lastServed, poolVars>>
procVars == <<installation, rulesFile, processor, user_profile_cache, profile_cache_time>>
vars == <<storeVars, clockVars, collectorVars, engineVars, obsVars, concVars, optVars, procVars>>

(***************************************************************************)
(* LearningStorage                                                         *)
(***************************************************************************)
\* success_rate = successful_uses / total_uses, in thousandths
Rate(s, t) == (s * 1000) \div t

\* update_pattern_success with the rate computed before the counters are incremented
PatternRowAfterStaleRate(row, success, ctx, t) ==
  IF row = NoRow
  THEN LET s == IF success THEN 1 ELSE 0
       IN [total_uses |-> 1, successful_uses |-> s,
           success_rate |-> Rate(s, 1), last_updated |-> t, context_conditions |-> ctx]
  ELSE LET tu == row.total_uses + 1
           su == IF success THEN row.successful_uses + 1 ELSE row.successful_uses
       IN [total_uses |-> tu, successful_uses |-> su,
           success_rate |-> Rate(row.successful_uses, row.total_uses),
           last_updated |-> t, context_conditions |-> ctx]

\* The row update_pattern_success writes, given the row its SELECT returned.
PatternRowAfter(row, success, ctx, t) ==
  IF row = NoRow
  THEN LET s == IF success THEN 1 ELSE 0
       IN [total_uses |-> 1, successful_uses |-> s,
           success_rate |-> Rate(s, 1), last_updated |-> t, context_conditions |-> ctx]
  ELSE LET tu == row.total_uses + 1
           su == IF success THEN row.successful_uses + 1 ELSE row.successful_uses
       IN [total_uses |-> tu, successful_uses |-> su,
           success_rate |-> Rate(su, tu), last_updated |-> t, context_conditions |-> ctx]

(***************************************************************************)
(* Concurrent callers of LearningStorage.update_pattern_success.           *)
(* t1 and t2 are threads sharing one LearningStorage instance (one _lock); *)
(* q1 owns a second instance opened on the same database file.             *)
(* sqlite3 runs the SELECT in autocommit mode and opens the transaction    *)
(* only before the UPDATE / INSERT, which is committed when the            *)
(* `with sqlite3.connect(...)` block exits.                                *)
(***************************************************************************)
\* rowid order after a write to pattern p: a new row goes last
OrderAfter(p) == IF pattern_success[p] = NoRow THEN Append(patternOrder, p) ELSE patternOrder

Procs == {"t1", "t2", "q1"}
Instances == {"A", "B"}
InstanceOf(p) == IF p = "q1" THEN "B" ELSE "A"
ConcPattern == "analyze_security"
EmptyCtx == [file_count |-> 0]

RECURSIVE SumOver(_, _)
SumOver(S, f) ==
  IF S = {} THEN 0
  ELSE LET x == CHOOSE y \in S : TRUE IN f[x] + SumOver(S \ {x}, f)

\* with self._lock:
ConcAcquire(p) ==
  /\ pc[p] = "idle"
  /\ callsMade[p].total < MaxCalls
  /\ lockHolder[InstanceOf(p)] = "none"
  /\ lockHolder' = [lockHolder EXCEPT ![InstanceOf(p)] = p]
  /\ \E success \in BOOLEAN : loc' = [loc EXCEPT ![p] = [row |-> NoRow, success |-> success]]
  /\ pc' = [pc EXCEPT ![p] = "select"]
  /\ UNCHANGED <<callsMade, concBase, storeVars, clockVars, collectorVars, engineVars, obsVars, optVars, procVars>>

\* cursor = conn.execute('SELECT total_uses, successful_uses ...'); result = cursor.fetchone()
ConcSelect(p) ==
  /\ pc[p] = "select"
  /\ loc' = [loc EXCEPT ![p].row = pattern_success[ConcPattern]]
  /\ pc' = [pc EXCEPT ![p] = "write"]
  /\ UNCHANGED <<lockHolder, callsMade, concBase, storeVars, clockVars, collectorVars, engineVars, obsVars, optVars, procVars>>

\* UPDATE (row was found) or INSERT (no row was found), commit, release the lock.
\* INSERT of a pattern_name that exists by now violates UNIQUE: sqlite3.IntegrityError,
\* the transaction is rolled back and the exception leaves update_pattern_success.
ConcWrite(p) ==
  /\ pc[p] = "write"
  /\ IF loc[p].row = NoRow /\ pattern_success[ConcPattern] # NoRow
     THEN /\ UNCHANGED <<pattern_success, patternOrder>>
          /\ lastCall' = [op |-> "update_pattern_success", raised |-> "IntegrityError", result |-> {}]
     ELSE /\ pattern_success' = [pattern_success EXCEPT ![ConcPattern] =
                                   PatternRowAfter(loc[p].row, loc[p].success, EmptyCtx, now)]
          /\ patternOrder' = OrderAfter(ConcPattern)
          /\ lastCall' = [op |-> "update_pattern_success", raised |-> "none", result |-> {}]
  /\ lockHolder' = [lockHolder EXCEPT ![InstanceOf(p)] = "none"]
  /\ callsMade' = [callsMade EXCEPT ![p] =
                     [total |-> @.total + 1,
                      succ |-> @.succ + (IF loc[p].success THEN 1 ELSE 0)]]
  /\ pc' = [pc EXCEPT ![p] = "idle"]
  /\ UNCHANGED <<loc, concBase, dbFile, interactions, nextId, feedback, user_preferences,
                 clockVars, collectorVars, engineVars, recLog, batchRuns, feedbackCalls, optVars, procVars>>

\* PerformanceOptimizer.__init__
OptimizerInit ==
  /\ pattern_cache = [k \in CacheKeys |-> NoEntry]
  /\ background_queue = <<>>
  /\ is_processing = FALSE
  /\ workerAlive = FALSE
  /\ workerTask = NoTask
  /\ createdAs = [k \in CacheKeys |-> NoEntry]
  /\ lastServed = [k \in CacheKeys |-> NoTime]
  /\ callerPc = [c \in Callers |-> "idle"]
  /\ callerLoc = [c \in Callers |-> NoEntry]
  /\ background_thread = NoThread
  /\ threads = <<>>

\* before claude_sc_preprocessor is imported and a processor is constructed
ProcessorInit ==
  /\ installation = "unknown"
  /\ rulesFile = "missing"
  /\ processor = NoProcessor
  /\ user_profile_cache = NoProfile
  /\ profile_cache_time = 0

ConcInitRows == {NoRow,
                 [total_uses |-> 1, successful_uses |-> 1, success_rate |-> Rate(1, 1),
                  last_updated |-> Epoch, context_conditions |-> EmptyCtx]}

InitCommon ==
  /\ dbFile = "ok"
  /\ interactions = <<>>
  /\ nextId = 1
  /\ feedback = <<>>
  /\ now = Epoch
  /\ ticks = 0
  /\ current_interaction_id = NoId
  /\ interaction_start_time = NoTime
  /\ engine_cache = <<>>
  /\ cache_timestamp = 0
  /\ lastCall = [op |-> "none", raised |-> "none", result |-> {}]
  /\ recLog = {}
  /\ batchRuns = 0
  /\ feedbackCalls = 0
  /\ pc = [p \in Procs |-> "idle"]
  /\ loc = [p \in Procs |-> [row |-> NoRow, success |-> FALSE]]
  /\ lockHolder = [i \in Instances |-> "none"]
  /\ callsMade = [p \in Procs |-> [total |-> 0, succ |-> 0]]
  /\ OptimizerInit
  /\ ProcessorInit

InitConc ==
  /\ InitCommon
  /\ user_preferences = [k \in Projects \X Patterns |-> NoWeight]
  /\ \E r \in ConcInitRows :
        /\ pattern_success = [p \in Patterns |-> IF p = ConcPattern THEN r ELSE NoRow]
        /\ patternOrder = IF r = NoRow THEN <<>> ELSE <<ConcPattern>>
        /\ concBase = IF r = NoRow THEN [total |-> 0, succ |-> 0]
                      ELSE [total |-> r.total_uses, succ |-> r.successful_uses]

NextConc == \E p \in Procs : ConcAcquire(p) \/ ConcSelect(p) \/ ConcWrite(p)

SpecConc == InitConc /\ [][NextConc]_vars

ConcQuiescent == \A p \in Procs : pc[p] = "idle"
ConcTotalCalls == SumOver(Procs, [p \in Procs |-> callsMade[p].total])
ConcSuccCalls == SumOver(Procs, [p \in Procs |-> callsMade[p].succ])

\* C1: when the concurrent update_pattern_success calls on one pattern have all
\* returned, total_uses is higher by the number of calls and successful_uses by the
\* number of calls made with success=True (no increment is lost), whether the callers
\* share one LearningStorage or use separate instances on the same database file.
C1_NoLostUpdate ==
  (ConcQuiescent /\ ConcTotalCalls > 0) =>
     /\ pattern_success[ConcPattern] # NoRow
     /\ pattern_success[ConcPattern].total_uses = concBase.total + ConcTotalCalls
     /\ pattern_success[ConcPattern].successful_uses = concBase.succ + ConcSuccCalls

(***************************************************************************)
(* Inputs of the sequential operations                                     *)
(***************************************************************************)
CtxSmall == [project_type |-> "python_backend", complexity |-> "moderate", file_count |-> 10,
             project_size |-> "small", languages |-> {"python"}, frameworks |-> {}]
CtxBig == [project_type |-> "python_backend", complexity |-> "complex", file_count |-> 120,
           project_size |-> "large", languages |-> {"python"}, frameworks |-> {"react"}]
Contexts == {CtxSmall, CtxBig}
RecChoices == {[flags |-> <<"--persona-security", "--think">>, confidence |-> 90],
               [flags |-> <<"--think", "--uc">>, confidence |-> 60]}
ExecTimes == {1, 45, 150}
ErrKinds == {"none", "keyword", "other"}     \* error_message: None / contains 'error' / other text

\* LearningDataCollector._parse_user_input
ParseUserInput(ui) ==
  IF ui.sc THEN [command |-> ui.command, description |-> ui.description]
  ELSE [command |-> "unknown", description |-> ui.description]

GeneralPattern(command) ==
  CASE command = "analyze" -> "analyze_general"
    [] OTHER -> "unknown_general"

\* LearningDataCollector._identify_pattern: first keyword table entry found in
\* "<command> <description>", else "<command>_general"
IdentifyPattern(command, description) ==
  IF description = "security" THEN "analyze_security" ELSE GeneralPattern(command)

\* LearningDataCollector._analyze_success
AnalyzeSuccess(command, reported_success, err, execution_time) ==
  IF ~reported_success THEN FALSE
  ELSE IF execution_time < 1 /\ command \in {"implement", "analyze", "improve"} THEN FALSE
  ELSE IF err = "keyword" THEN FALSE
  ELSE TRUE

\* LearningDataCollector._calculate_implicit_rating
ImplicitRating(success, execution_time) ==
  IF ~success THEN 1
  ELSE IF execution_time < 10 THEN 5
  ELSE IF execution_time < 30 THEN 4
  ELSE IF execution_time < 60 THEN 3
  ELSE IF execution_time < 120 THEN 2
  ELSE 1

\* rows get_user_interactions(days) selects: user_id = self.user_id AND timestamp > since_date
Visible(days) ==
  {i \in DOMAIN interactions :
      /\ interactions[i].user_id = Me
      /\ interactions[i].timestamp > now - days * OneDay}

StoreDown == dbFile = "corrupt"
Returned(op, res) == [op |-> op, raised |-> "none", result |-> res]
Raised(op, exc) == [op |-> op, raised |-> exc, result |-> {}]

(***************************************************************************)
(* LearningStorage operations called directly                              *)
(***************************************************************************)
\* LearningStorage.__init__ -> _init_database on the existing file
OpenStore ==
  /\ lastCall' = IF StoreDown THEN Raised("LearningStorage", "DatabaseError")
                 ELSE Returned("LearningStorage", {})
  /\ UNCHANGED <<storeVars, clockVars, collectorVars, engineVars, recLog, batchRuns, feedbackCalls, concVars, optVars, procVars>>

\* the backing file is overwritten or damaged by something outside the program
CorruptDb ==
  /\ dbFile = "ok"
  /\ dbFile' = "corrupt"
  /\ lastCall' = Returned("none", {})
  /\ UNCHANGED <<interactions, nextId, feedback, pattern_success, patternOrder, user_preferences,
                 clockVars, collectorVars, engineVars, recLog, batchRuns, feedbackCalls, concVars, optVars, procVars>>

DirectRows ==
  {[timestamp |-> now, command |-> "analyze", description |-> "security",
    recommended_flags |-> <<"--persona-security", "--think">>, success |-> TRUE,
    execution_time |-> 25, confidence |-> 90, user_id |-> u, project_hash |-> pr,
    project_context |-> CtxSmall] : u \in Users, pr \in Projects}

\* LearningStorage.record_interaction
RecordInteraction(row) ==
  /\ nextId <= MaxInteractions
  /\ IF StoreDown
     THEN /\ lastCall' = Raised("record_interaction", "DatabaseError")
          /\ UNCHANGED <<interactions, nextId>>
     ELSE /\ interactions' = interactions @@ (nextId :> row)
          /\ nextId' = nextId + 1
          /\ lastCall' = Returned("record_interaction", {nextId})
  /\ UNCHANGED <<dbFile, feedback, pattern_success, patternOrder, user_preferences,
                 clockVars, collectorVars, engineVars, recLog, batchRuns, feedbackCalls, concVars, optVars, procVars>>

FeedbackRow(iid, type, rating, ok, project) ==
  [timestamp |-> now, interaction_id |-> iid, feedback_type |-> type, rating |-> rating,
   success_indicator |-> ok, user_id |-> Me, project_hash |-> project]

\* LearningStorage.record_feedback
RecordFeedback(iid, rating) ==
  /\ Len(feedback) < MaxFeedback
  /\ IF StoreDown
     THEN /\ lastCall' = Raised("record_feedback", "DatabaseError")
          /\ UNCHANGED feedback
     ELSE /\ feedback' = Append(feedback, FeedbackRow(iid, "explicit", rating, rating >= 3, CurrentProject))
          /\ lastCall' = Returned("record_feedback", {})
  /\ UNCHANGED <<dbFile, interactions, nextId, pattern_success, patternOrder, user_preferences,
                 clockVars, collectorVars, engineVars, recLog, batchRuns, feedbackCalls, concVars, optVars, procVars>>

UsesOf(p) == IF pattern_success[p] = NoRow THEN 0 ELSE pattern_success[p].total_uses

\* LearningStorage.update_pattern_success, one caller at a time
UpdatePatternSuccess(p, success, ctx) ==
  /\ UsesOf(p) < MaxUses
  /\ IF StoreDown
     THEN /\ lastCall' = Raised("update_pattern_success", "DatabaseError")
          /\ UNCHANGED <<pattern_success, patternOrder>>
     ELSE /\ pattern_success' = [pattern_success EXCEPT ![p] = PatternRowAfter(@, success, ctx, now)]
          /\ patternOrder' = OrderAfter(p)
          /\ lastCall' = Returned("update_pattern_success", {})
  /\ UNCHANGED <<dbFile, interactions, nextId, feedback, user_preferences,
                 clockVars, collectorVars, engineVars, recLog, batchRuns, feedbackCalls, concVars, optVars, procVars>>

\* LearningStorage.get_user_interactions(days): no exception handler around the query
GetUserInteractions(days) ==
  /\ lastCall' = IF StoreDown THEN Raised("get_user_interactions", "DatabaseError")
                 ELSE Returned("get_user_interactions", Visible(days))
  /\ UNCHANGED <<storeVars, clockVars, collectorVars, engineVars, recLog, batchRuns, feedbackCalls, concVars, optVars, procVars>>

\* LearningStorage.cleanup_old_data: DELETE ... WHERE timestamp < cutoff keeps a row
\* whose timestamp equals the cutoff
InteractionsKeptInclusive(cutoff) ==
  {i \in DOMAIN interactions : interactions[i].timestamp > cutoff}

InteractionsKept(cutoff) ==
  {i \in DOMAIN interactions : ~(interactions[i].timestamp < cutoff)}

\* LearningStorage.cleanup_old_data(days); the call returns None, the cutoff it
\* computed is kept with the observation of the call
CleanupOldData(days) ==
  /\ LET cutoff == now - days * OneDay
     IN IF StoreDown
        THEN /\ lastCall' = [op |-> "cleanup_old_data", raised |-> "DatabaseError",
                             result |-> {}, cutoff |-> cutoff]
             /\ UNCHANGED <<interactions, feedback>>
        ELSE /\ interactions' = [i \in InteractionsKept(cutoff) |-> interactions[i]]
             /\ feedback' = SelectSeq(feedback, LAMBDA f : ~(f.timestamp < cutoff))
             /\ lastCall' = [op |-> "cleanup_old_data", raised |-> "none",
                             result |-> {}, cutoff |-> cutoff]
  /\ UNCHANGED <<dbFile, nextId, pattern_success, patternOrder, user_preferences,
                 clockVars, collectorVars, engineVars, recLog, batchRuns, feedbackCalls, concVars, optVars, procVars>>

\* the wall clock advances by d seconds
Tick(d) ==
  /\ ticks < MaxTicks
  /\ now' = now + d
  /\ ticks' = ticks + 1
  /\ UNCHANGED <<storeVars, collectorVars, engineVars, obsVars, concVars, optVars, procVars>>

(***************************************************************************)
(* LearningDataCollector                                                   *)
(***************************************************************************)
\* LearningDataCollector.start_interaction
StartInteraction(ui, rec, ctx) ==
  /\ nextId <= MaxInteractions
  /\ interaction_start_time' = now
  /\ IF StoreDown
     THEN /\ lastCall' = Raised("start_interaction", "DatabaseError")
          /\ UNCHANGED <<interactions, nextId, current_interaction_id>>
     ELSE LET parsed == ParseUserInput(ui)
              row == [timestamp |-> now, command |-> parsed.command,
                      description |-> parsed.description,
                      recommended_flags |-> rec.flags, success |-> FALSE,
                      execution_time |-> 0, confidence |-> rec.confidence,
                      user_id |-> Me, project_hash |-> CurrentProject,
                      project_context |-> ctx]
          IN /\ interactions' = interactions @@ (nextId :> row)
             /\ current_interaction_id' = nextId
             /\ nextId' = nextId + 1
             /\ lastCall' = Returned("start_interaction", {nextId})
  /\ UNCHANGED <<dbFile, feedback, pattern_success, patternOrder, user_preferences,
                 clockVars, engineVars, recLog, batchRuns, feedbackCalls, concVars, optVars, procVars>>

\* LearningDataCollector.end_interaction.  The UserInteraction it builds with the
\* analysed outcome and the execution time (updated_interaction) is never written back.
EndInteraction(success, err) ==
  IF current_interaction_id = NoId \/ interaction_start_time = NoTime
  THEN /\ lastCall' = Returned("end_interaction", {})
       /\ UNCHANGED <<storeVars, clockVars, collectorVars, engineVars, recLog, batchRuns, feedbackCalls, concVars, optVars, procVars>>
  ELSE IF StoreDown
  THEN /\ lastCall' = Raised("end_interaction", "DatabaseError")
       /\ UNCHANGED <<storeVars, clockVars, collectorVars, engineVars, recLog, batchRuns, feedbackCalls, concVars, optVars, procVars>>
  ELSE LET id == current_interaction_id
           execution_time == now - interaction_start_time
       IN /\ IF id \in Visible(1)
             THEN LET row == interactions[id]
                      analyzed == AnalyzeSuccess(row.command, success, err, execution_time)
                      p == IdentifyPattern(row.command, row.description)
                  IN /\ UsesOf(p) < MaxUses
                     /\ Len(feedback) < MaxFeedback
                     /\ pattern_success' = [pattern_success EXCEPT ![p] =
                                              PatternRowAfter(@, analyzed, row.project_context, now)]
                     /\ patternOrder' = OrderAfter(p)
                     /\ feedback' = Append(feedback,
                                       FeedbackRow(id, "implicit",
                                                   ImplicitRating(analyzed, execution_time),
                                                   analyzed, CurrentProject))
                     /\ lastCall' = Returned("end_interaction",
                                        {[id |-> id, success |-> analyzed,
                                          execution_time |-> execution_time]})
             ELSE /\ UNCHANGED <<pattern_success, patternOrder, feedback>>
                  /\ lastCall' = Returned("end_interaction", {})
          /\ current_interaction_id' = NoId
          /\ interaction_start_time' = NoTime
          /\ UNCHANGED <<dbFile, interactions, nextId, user_preferences,
                         clockVars, engineVars, recLog, batchRuns, feedbackCalls, concVars, optVars, procVars>>

(***************************************************************************)
(* FeedbackProcessor                                                       *)
(***************************************************************************)
\* a call on interaction `iid` that ended in exception `exc`
RaisedFor(op, exc, iid) == [op |-> op, raised |-> exc, result |-> {}, target |-> iid]

\* FeedbackProcessor.process_immediate_feedback: _determine_pattern_adjustments reads
\* the interactions (days=1); building the FeedbackRecord then evaluates os.getcwd(),
\* and feedback_processor.py never imports os: NameError before record_feedback.
ProcessImmediateFeedback(iid, success, execution_time) ==
  /\ lastCall' = IF StoreDown THEN RaisedFor("process_immediate_feedback", "DatabaseError", iid)
                 ELSE RaisedFor("process_immediate_feedback", "NameError", iid)
  /\ UNCHANGED <<storeVars, clockVars, collectorVars, engineVars, recLog, batchRuns, feedbackCalls, concVars, optVars, procVars>>

\* FeedbackProcessor.process_explicit_feedback: no store access before the same NameError.
ProcessExplicitFeedback(iid, rating) ==
  /\ lastCall' = RaisedFor("process_explicit_feedback", "NameError", iid)
  /\ UNCHANGED <<storeVars, clockVars, collectorVars, engineVars, recLog, batchRuns, feedbackCalls, concVars, optVars, procVars>>

\* FeedbackProcessor._is_feedback_processed
IsFeedbackProcessed(iid) == FALSE

\* FeedbackProcessor._analyze_interaction_for_batch_processing returns None
\* when execution_time == 0
BatchAnalysable(row) == row.execution_time # 0

\* FeedbackProcessor.process_batch_feedback: the result is the set of interactions a
\* ProcessedFeedback is returned for; _apply_batch_updates only prints the averages.
ProcessBatchFeedback(days) ==
  /\ batchRuns < MaxBatchRuns
  /\ IF StoreDown
     THEN /\ lastCall' = Raised("process_batch_feedback", "DatabaseError")
          /\ UNCHANGED batchRuns
     ELSE /\ lastCall' = Returned("process_batch_feedback",
                            {[id |-> i, days |-> days] : i \in
                               {j \in Visible(days) :
                                  ~IsFeedbackProcessed(j) /\ BatchAnalysable(interactions[j])}})
          /\ batchRuns' = batchRuns + 1
  /\ UNCHANGED <<storeVars, clockVars, collectorVars, engineVars, recLog, feedbackCalls, concVars, optVars, procVars>>

(***************************************************************************)
(* AdaptiveLearningEngine                                                  *)
(***************************************************************************)
CacheTTL == 300
MinSamplesForLearning == 3
NoRating == 0
ProjectRank(pr) == IF pr = "projA" THEN 1 ELSE 2

RECURSIVE DescSeq(_)
DescSeq(S) ==
  IF S = {} THEN <<>>
  ELSE LET m == CHOOSE x \in S : \A y \in S : y <= x IN <<m>> \o DescSeq(S \ {m})

\* get_user_interactions returns the rows ORDER BY timestamp DESC (latest insert first)
VisibleSeq(days) == DescSeq(Visible(days))

\* AdaptiveLearningEngine._identify_interaction_pattern
IdentifyInteractionPattern(row) ==
  IF row.description = "security" THEN "analyze_security" ELSE GeneralPattern(row.command)

\* AdaptiveLearningEngine._calculate_learning_weight, in tenths
LearningWeight(success, execution_time, rating) ==
  LET base == IF success THEN 5 ELSE -3
      time == IF execution_time < 30 THEN 2 ELSE IF execution_time > 120 THEN -1 ELSE 0
      rate == IF rating = NoRating THEN 0
              ELSE IF rating >= 4 THEN 3 ELSE IF rating <= 2 THEN -2 ELSE 0
  IN Max(-10, Min(10, base + time + rate))

\* the preference update without the upper clamp
NewPreferenceUnclamped(current, lw) == Max(10, current + lw)

\* new_preference = max(0.1, min(2.0, current_preference + learning_weight * learning_rate))
NewPreference(current, lw) == Max(10, Min(200, current + lw))

\* storage.get_user_preferences(project_hash).get(pattern_name, 1.0)
StoredPreference(project, p) ==
  IF user_preferences[<<project, p>>] = NoWeight THEN 100 ELSE user_preferences[<<project, p>>]

\* storage.get_user_preferences().get(pattern_name, 1.0): the rows of every project of
\* the user, read in index order (project_hash ascending); the dict keeps the last one
AnyProjectPreference(p) ==
  LET having == {pr \in Projects : user_preferences[<<pr, p>>] # NoWeight}
  IN IF having = {} THEN 100
     ELSE LET last == CHOOSE pr \in having : \A o \in having : ProjectRank(o) <= ProjectRank(pr)
          IN user_preferences[<<last, p>>]

\* AdaptiveLearningEngine._calculate_confidence_score, in thousandths
ConfidenceScore(usage_count, success_rate) ==
  Min((success_rate * Min((usage_count * 1000) \div 20, 1000)) \div 1000, 1000)

\* AdaptiveLearningEngine._get_pattern_base_flags
PatternBaseFlags(p) ==
  IF p = "analyze_security"
  THEN <<"--persona-security", "--focus", "security", "--think", "--validate">>
  ELSE <<"--think", "--uc">>

\* keys 'size_<s>', 'lang_<l>', 'framework_<f>' that a context contributes
WeightKeys(ctx) ==
  {<<"size", IF "project_size" \in DOMAIN ctx THEN ctx.project_size ELSE "unknown">>}
  \cup (IF "languages" \in DOMAIN ctx THEN {<<"lang", l>> : l \in ctx.languages} ELSE {})
  \cup (IF "frameworks" \in DOMAIN ctx THEN {<<"framework", f>> : f \in ctx.frameworks} ELSE {})

\* AdaptiveLearningEngine._calculate_context_weights over the interactions ids
CalculateContextWeights(ids) ==
  LET keys == UNION {WeightKeys(interactions[i].project_context) : i \in ids}
      count(k) == Cardinality({i \in ids : k \in WeightKeys(interactions[i].project_context)})
      total == SumOver(ids, [i \in ids |-> Cardinality(WeightKeys(interactions[i].project_context))])
  IN {[key |-> k, w |-> (count(k) * 1000) \div total] : k \in keys}

\* The context_conditions column holds the raw project context, which has none of the
\* size_/lang_/framework_ keys: as context_weights it contributes no weight.
ConditionsAsWeights(ctx) == {}

\* AdaptiveLearningEngine._calculate_context_similarity, in thousandths
ContextSimilarity(weights, ctx) ==
  IF weights = {} THEN 500
  ELSE LET factor(k) == IF k[1] = "lang" THEN 4 ELSE 3
           hit == {e \in weights : e.key \in WeightKeys(ctx)}
           score == SumOver(hit, [e \in hit |-> e.w * factor(e.key)])
           total == SumOver(hit, [e \in hit |-> factor(e.key)])
       IN IF total > 0 THEN score \div total ELSE 500

\* AdaptiveLearningEngine._calculate_recency_score, in thousandths; exp(-days/60) is
\* tabulated: 31..45 days, 46..90 days, later
RecencyScore(last_updated) ==
  LET days == (now - last_updated) \div OneDay
  IN IF days <= 30 THEN 1000
     ELSE IF days <= 45 THEN 530 ELSE IF days <= 90 THEN 320 ELSE 130

\* AdaptiveLearningEngine._load_patterns_cache: what a reload builds from the store
LoadedPattern(p) ==
  LET row == pattern_success[p]
  IN [pattern_id |-> p, base_flags |-> PatternBaseFlags(p),
      success_rate |-> row.success_rate, usage_count |-> row.total_uses,
      confidence_score |-> ConfidenceScore(row.total_uses, row.success_rate),
      context_weights |-> ConditionsAsWeights(row.context_conditions),
      last_updated |-> row.last_updated,
      user_preference_score |-> AnyProjectPreference(p)]

LoadedCache == [k \in 1..Len(patternOrder) |-> LoadedPattern(patternOrder[k])]

\* the cache after _load_patterns_cache: reloaded only when older than the TTL
CacheAfterLoad == IF now - cache_timestamp > CacheTTL THEN LoadedCache ELSE engine_cache

CacheIndex(cache, p) ==
  IF \E k \in 1..Len(cache) : cache[k].pattern_id = p
  THEN CHOOSE k \in 1..Len(cache) : cache[k].pattern_id = p
  ELSE 0

\* "command in pattern_name"
CommandInName(command, p) ==
  \/ command = "analyze" /\ p \in {"analyze_security", "analyze_general"}
  \/ command = "unknown" /\ p = "unknown_general"

EndsWithGeneral(p) == p \in {"analyze_general", "unknown_general"}

\* AdaptiveLearningEngine._find_candidate_patterns: indexes into the cache, in list order
FindCandidatePatterns(cache, command, ctx) ==
  LET first == SelectSeq([k \in 1..Len(cache) |-> k],
                 LAMBDA k : CommandInName(command, cache[k].pattern_id)
                            \/ EndsWithGeneral(cache[k].pattern_id))
      inFirst == {first[j] : j \in 1..Len(first)}
      second == SelectSeq([k \in 1..Len(cache) |-> k],
                  LAMBDA k : k \notin inFirst
                             /\ ContextSimilarity(cache[k].context_weights, ctx) > 500)
  IN first \o second

\* AdaptiveLearningEngine._calculate_adaptive_score: total score in thousandths of a point
AdaptiveScore(pat, ctx) ==
  pat.success_rate * 40
  + Min(pat.user_preference_score, 200) * 100
  + ContextSimilarity(pat.context_weights, ctx) * 20
  + pat.confidence_score * 10
  + RecencyScore(pat.last_updated) * 10

ConfidencePercentage(score) == Min(95, score \div 1000)

HasFlag(flags, f) == \E k \in 1..Len(flags) : flags[k] = f

\* AdaptiveLearningEngine._adjust_flags_for_context
EngineAdjustFlags(flags, ctx) ==
  LET size == IF "project_size" \in DOMAIN ctx THEN ctx.project_size ELSE "small"
      files == IF "file_count" \in DOMAIN ctx THEN ctx.file_count ELSE 0
      langs == IF "languages" \in DOMAIN ctx THEN ctx.languages ELSE {}
      fws == IF "frameworks" \in DOMAIN ctx THEN ctx.frameworks ELSE {}
      f1 == IF (size \in {"large", "very_large"} \/ files > 50) /\ ~HasFlag(flags, "--delegate")
            THEN Append(flags, "--delegate") ELSE flags
      f2 == IF (size = "very_large" \/ files > 100) /\ ~HasFlag(f1, "--uc")
            THEN Append(f1, "--uc") ELSE f1
      f3 == IF "python" \in langs /\ ~HasFlag(f2, "--validate")
            THEN Append(f2, "--validate") ELSE f2
      f4 == IF fws \cap {"react", "vue", "angular"} # {} /\ ~HasFlag(f3, "--magic")
            THEN Append(f3, "--magic") ELSE f3
  IN f4

\* AdaptiveLearningEngine._get_fallback_recommendation
FallbackRecommendation(command) ==
  IF command = "analyze"
  THEN [flags |-> <<"--persona-analyzer", "--think", "--uc">>, confidence |-> 70, used |-> {}]
  ELSE [flags |-> <<"--think", "--uc">>, confidence |-> 60, used |-> {}]

\* max(scored_recommendations, key=score): the first candidate with the highest score
BestCandidate(cache, cands, ctx) ==
  CHOOSE j \in 1..Len(cands) :
     /\ \A i \in 1..Len(cands) : AdaptiveScore(cache[cands[i]], ctx) <= AdaptiveScore(cache[cands[j]], ctx)
     /\ \A i \in 1..(j - 1) : AdaptiveScore(cache[cands[i]], ctx) < AdaptiveScore(cache[cands[j]], ctx)

\* the recommendation computed from a pattern cache
RecommendationFrom(cache, command, ctx) ==
  LET cands == FindCandidatePatterns(cache, command, ctx)
  IN IF Len(cands) = 0 THEN FallbackRecommendation(command)
     ELSE LET best == cache[cands[BestCandidate(cache, cands, ctx)]]
          IN [flags |-> EngineAdjustFlags(best.base_flags, ctx),
              confidence |-> ConfidencePercentage(AdaptiveScore(best, ctx)),
              used |-> {[pattern |-> cache[cands[j]].pattern_id,
                         preference |-> cache[cands[j]].user_preference_score] :
                          j \in 1..Len(cands)}]

StoreSnapshot == <<interactions, feedback, pattern_success, patternOrder, user_preferences>>

\* AdaptiveLearningEngine.get_adaptive_recommendation
GetAdaptiveRecommendation(command, description, ctx) ==
  /\ ~StoreDown
  /\ LET cache == CacheAfterLoad
         rec == RecommendationFrom(cache, command, ctx)
     IN /\ engine_cache' = cache
        /\ cache_timestamp' = IF now - cache_timestamp > CacheTTL THEN now ELSE cache_timestamp
        /\ lastCall' = Returned("get_adaptive_recommendation", {rec})
        /\ recLog' = {[command |-> command, description |-> description, ctx |-> ctx,
                        snapshot |-> StoreSnapshot, at |-> now,
                        flags |-> rec.flags, confidence |-> rec.confidence]}
  /\ UNCHANGED <<storeVars, clockVars, collectorVars, batchRuns, feedbackCalls, concVars, optVars, procVars>>

RECURSIVE ConcatFlags(_)
ConcatFlags(ids) ==
  IF Len(ids) = 0 THEN <<>>
  ELSE interactions[Head(ids)].recommended_flags \o ConcatFlags(Tail(ids))

RECURSIVE FirstSeen(_, _)
FirstSeen(seq, seen) ==
  IF Len(seq) = 0 THEN <<>>
  ELSE IF Head(seq) \in seen THEN FirstSeen(Tail(seq), seen)
  ELSE <<Head(seq)>> \o FirstSeen(Tail(seq), seen \cup {Head(seq)})

Occurrences(seq, x) == Cardinality({k \in 1..Len(seq) : seq[k] = x})

\* Counter.most_common(): by count, descending; equal counts keep first-seen order
RECURSIVE MostCommon(_, _)
MostCommon(distinct, tokens) ==
  IF Len(distinct) = 0 THEN <<>>
  ELSE LET j == CHOOSE k \in 1..Len(distinct) :
                  /\ \A i \in 1..Len(distinct) :
                        Occurrences(tokens, distinct[i]) <= Occurrences(tokens, distinct[k])
                  /\ \A i \in 1..(k - 1) :
                        Occurrences(tokens, distinct[i]) < Occurrences(tokens, distinct[k])
           rest == SelectSeq(distinct, LAMBDA x : x # distinct[j])
       IN <<distinct[j]>> \o MostCommon(rest, tokens)

\* AdaptiveLearningEngine._determine_optimal_flags over the successful interactions:
\* the flags used in more than 30% of the flag occurrences
DetermineOptimalFlags(okIds) ==
  LET tokens == ConcatFlags(okIds)
      selected == SelectSeq(MostCommon(FirstSeen(tokens, {}), tokens),
                            LAMBDA x : Occurrences(tokens, x) * 10 > 3 * Len(tokens))
  IN IF Len(selected) = 0 THEN <<"--think", "--uc">> ELSE selected

\* AdaptiveLearningEngine._update_pattern_learning: the cache after learning pattern
\* `name` from its interactions `ids` (a sequence, in list order)
UpdatePatternLearning(cache, name, ids) ==
  LET n == Len(ids)
      okIds == SelectSeq(ids, LAMBDA i : interactions[i].success)
      success_rate == (Len(okIds) * 1000) \div n
      idSet == {ids[k] : k \in 1..n}
      idx == CacheIndex(cache, name)
      new_rate == IF idx = 0 THEN success_rate
                  ELSE (cache[idx].success_rate * 95 + success_rate * 5) \div 100
      entry == [pattern_id |-> name,
                base_flags |-> DetermineOptimalFlags(okIds),
                success_rate |-> new_rate,
                usage_count |-> IF idx = 0 THEN n ELSE cache[idx].usage_count + n,
                confidence_score |-> ConfidenceScore(n, new_rate),
                context_weights |-> CalculateContextWeights(idSet),
                last_updated |-> now,
                user_preference_score |-> IF idx = 0 THEN 100
                                          ELSE cache[idx].user_preference_score]
  IN IF idx = 0 THEN Append(cache, entry) ELSE [cache EXCEPT ![idx] = entry]

RECURSIVE LearnFold(_, _, _)
LearnFold(cache, names, rows) ==
  IF Len(names) = 0 THEN cache
  ELSE LET group == SelectSeq(rows,
                      LAMBDA i : IdentifyInteractionPattern(interactions[i]) = Head(names))
       IN LearnFold(IF Len(group) >= MinSamplesForLearning
                    THEN UpdatePatternLearning(cache, Head(names), group)
                    ELSE cache,
                    Tail(names), rows)

\* AdaptiveLearningEngine.learn_from_interactions: reads the store, rewrites the cache
LearnFromInteractions(days) ==
  /\ ~StoreDown
  /\ \A k \in 1..Len(engine_cache) : engine_cache[k].usage_count < MaxLearnedUses
  /\ LET rows == VisibleSeq(days)
         names == FirstSeen([k \in 1..Len(rows) |->
                                IdentifyInteractionPattern(interactions[rows[k]])], {})
     IN /\ engine_cache' = LearnFold(engine_cache, names, rows)
        /\ lastCall' = Returned("learn_from_interactions",
                                {[total_interactions |-> Len(rows)]})
  /\ UNCHANGED <<storeVars, clockVars, collectorVars, cache_timestamp, recLog, batchRuns,
                 feedbackCalls, concVars, optVars, procVars>>

\* AdaptiveLearningEngine.update_learning_from_feedback with _update_pattern_weights
UpdateLearningFromFeedback(iid, success, execution_time, rating) ==
  /\ ~StoreDown
  /\ IF iid \notin Visible(7)
     THEN /\ lastCall' = Returned("update_learning_from_feedback", {})
          /\ UNCHANGED <<storeVars, engine_cache, feedbackCalls>>
     ELSE LET row == interactions[iid]
              p == IdentifyInteractionPattern(row)
              lw == LearningWeight(success, execution_time, rating)
              idx == CacheIndex(engine_cache, p)
              current == StoredPreference(row.project_hash, p)
              new == NewPreference(current, lw)
          IN /\ feedbackCalls < MaxFeedbackCalls
             /\ feedbackCalls' = feedbackCalls + 1
             /\ IF idx # 0
                THEN /\ UsesOf(p) < MaxUses
                     /\ engine_cache' =
                          [engine_cache EXCEPT
                             ![idx].success_rate = Max(0, Min(1000, @ + lw * 10)),
                             ![idx].last_updated = now]
                     /\ pattern_success' = [pattern_success EXCEPT ![p] =
                                              PatternRowAfter(@, lw > 0, row.project_context, now)]
                     /\ patternOrder' = OrderAfter(p)
                ELSE UNCHANGED <<engine_cache, pattern_success, patternOrder>>
             /\ user_preferences' = [user_preferences EXCEPT ![<<row.project_hash, p>>] = new]
             /\ lastCall' = Returned("update_learning_from_feedback",
                                {[pattern |-> p, project |-> row.project_hash,
                                  old |-> current, delta |-> lw, success |-> success]})
             /\ UNCHANGED <<dbFile, interactions, nextId, feedback>>
  /\ UNCHANGED <<clockVars, collectorVars, cache_timestamp, recLog, batchRuns, concVars, optVars, procVars>>

(***************************************************************************)
(* The engine on a store that earlier sessions have written                *)
(***************************************************************************)
PriorRow(success, project) ==
  [timestamp |-> Epoch, command |-> "analyze", description |-> "security",
   recommended_flags |-> <<"--persona-security", "--think">>, success |-> success,
   execution_time |-> 25, confidence |-> 90, user_id |-> Me, project_hash |-> project,
   project_context |-> CtxSmall]

PriorInteractions == <<PriorRow(TRUE, "projA"), PriorRow(TRUE, "projA"), PriorRow(FALSE, "projB")>>

PriorPreferences ==
  {[k \in Projects \X Patterns |-> NoWeight],
   [k \in Projects \X Patterns |-> IF k = <<"projA", "analyze_security">> THEN 195 ELSE NoWeight],
   [k \in Projects \X Patterns |-> IF k = <<"projA", "analyze_security">> THEN 12
                                   ELSE IF k = <<"projB", "analyze_security">> THEN 150
                                   ELSE NoWeight]}

InitEngine ==
  /\ dbFile = "ok"
  /\ interactions = PriorInteractions
  /\ nextId = Len(PriorInteractions) + 1
  /\ feedback = <<>>
  /\ pattern_success = [p \in Patterns |-> NoRow]
  /\ patternOrder = <<>>
  /\ user_preferences \in PriorPreferences
  /\ now = Epoch
  /\ ticks = 0
  /\ current_interaction_id = NoId
  /\ interaction_start_time = NoTime
  /\ engine_cache = <<>>
  /\ cache_timestamp = 0
  /\ lastCall = Returned("none", {})
  /\ recLog = {}
  /\ batchRuns = 0
  /\ feedbackCalls = 0
  /\ pc = [p \in Procs |-> "idle"]
  /\ loc = [p \in Procs |-> [row |-> NoRow, success |-> FALSE]]
  /\ lockHolder = [i \in Instances |-> "none"]
  /\ callsMade = [p \in Procs |-> [total |-> 0, succ |-> 0]]
  /\ OptimizerInit
  /\ ProcessorInit
  /\ concBase = [total |-> 0, succ |-> 0]

EngineSteps == {CacheTTL + 1}

\* outcomes reported to update_learning_from_feedback: learning weights 1.0, 0.5, -0.6
Outcomes ==
  {[success |-> TRUE, execution_time |-> 1, rating |-> 5],
   [success |-> TRUE, execution_time |-> 45, rating |-> NoRating],
   [success |-> FALSE, execution_time |-> 150, rating |-> 2]}

NextEngine ==
  \/ \E command \in Commands : GetAdaptiveRecommendation(command, "security", CtxBig)
  \/ \E iid \in 1..(Len(PriorInteractions) + 1), o \in Outcomes :
        UpdateLearningFromFeedback(iid, o.success, o.execution_time, o.rating)
  \/ LearnFromInteractions(30)
  \/ \E d \in EngineSteps : Tick(d)

SpecEngine == InitEngine /\ [][NextEngine]_vars

(***************************************************************************)
(* PerformanceOptimizer                                                    *)
(***************************************************************************)
OptCacheTTL == 1800
CacheCapacity == 1000

\* cache_key = f"{command}:{hash(description)}:{context.get('project_type', 'unknown')}";
\* the two descriptions of the model have different hashes
CacheKey(command, description, ctx) ==
  <<command, description,
    IF "project_type" \in DOMAIN ctx THEN ctx.project_type ELSE "unknown">>

\* PerformanceOptimizer._adjust_flags_for_context
OptAdjustFlags(flags, ctx) ==
  LET complexity == IF "complexity" \in DOMAIN ctx THEN ctx.complexity ELSE "moderate"
      files == IF "file_count" \in DOMAIN ctx THEN ctx.file_count ELSE 0
      f1 == IF complexity = "complex" /\ HasFlag(flags, "--think") /\ ~HasFlag(flags, "--think-hard")
            THEN [k \in 1..Len(flags) |-> IF flags[k] = "--think" THEN "--think-hard" ELSE flags[k]]
            ELSE flags
      f2 == IF files > 50 /\ ~HasFlag(f1, "--delegate") THEN Append(f1, "--delegate") ELSE f1
  IN f2

\* descriptions given to the matcher and the quick path.  The Korean keywords of the rules are written
\* in Latin letters: "boan" is the second keyword of analyze_security.
MatcherDescriptions == Descriptions \cup {"audit security vulnerability boan"}
ScenarioDescription == "find security vulnerabilities"

\* the words of a description, in order; in the texts of the model a rule keyword
\* occurs as a whole word or not at all
DescriptionWords(description) ==
  IF description = "audit security vulnerability boan"
  THEN <<"audit", "security", "vulnerability", "boan">>
  ELSE IF description = ScenarioDescription
  THEN <<"find", "security", "vulnerabilities">>
  ELSE <<description>>

\* full_text = f"{command} {description}".lower()
FullText(command, description) == <<command>> \o DescriptionWords(description)

Occurs(text, word) == \E k \in 1..Len(text) : text[k] = word

\* PerformanceOptimizer._quick_pattern_match: priority_patterns, in dict order
QuickPriorityPatterns ==
  <<[name |-> "security",
     keywords |-> {"security", "boan", "vulnerability", "chwiyakjeom", "audit"},
     flags |-> <<"--persona-security", "--focus", "security", "--validate", "--uc">>,
     confidence |-> 95],
    [name |-> "performance",
     keywords |-> {"performance", "seongneung", "optimize", "choejeokhwa", "bottleneck"},
     flags |-> <<"--persona-performance", "--think-hard", "--focus", "performance", "--uc">>,
     confidence |-> 90],
    [name |-> "frontend",
     keywords |-> {"react", "vue", "component", "keomponeonteu", "ui", "interface"},
     flags |-> <<"--persona-frontend", "--magic", "--c7", "--uc">>, confidence |-> 94],
    [name |-> "backend",
     keywords |-> {"api", "server", "seobeo", "backend", "database"},
     flags |-> <<"--persona-backend", "--seq", "--c7", "--uc">>, confidence |-> 92],
    [name |-> "architecture",
     keywords |-> {"architecture", "akitekcheo", "design", "pattern"},
     flags |-> <<"--persona-architect", "--ultrathink", "--seq", "--uc">>, confidence |-> 95]>>

\* the priority patterns one of whose keywords occurs in the text
QuickKeywordHits(command, description) ==
  {k \in 1..Len(QuickPriorityPatterns) :
      \E w \in QuickPriorityPatterns[k].keywords : Occurs(FullText(command, description), w)}

\* _quick_pattern_match: the per-command recommendation when no keyword occurs
QuickCommandDefault(command, ctx) ==
  IF command = "analyze"
  THEN [flags |-> <<"--persona-analyzer", "--think", "--uc">>, confidence |-> 80]
  ELSE IF command = "implement"
  THEN [flags |-> IF "project_type" \in DOMAIN ctx /\ ctx.project_type = "python_backend"
                  THEN <<"--persona-backend", "--c7", "--uc">>
                  ELSE <<"--persona-frontend", "--magic", "--uc">>,
        confidence |-> 75]
  ELSE IF command = "improve"
  THEN [flags |-> <<"--persona-refactorer", "--loop", "--uc">>, confidence |-> 85]
  ELSE [flags |-> <<"--think", "--uc">>, confidence |-> 60]

\* PerformanceOptimizer._quick_pattern_match
QuickPatternMatch(command, description, ctx) ==
  LET hits == QuickKeywordHits(command, description)
  IN IF hits # {}
     THEN LET first == QuickPriorityPatterns[CHOOSE k \in hits : \A o \in hits : k <= o]
          IN [flags |-> OptAdjustFlags(first.flags, ctx), confidence |-> first.confidence]
     ELSE [flags |-> OptAdjustFlags(QuickCommandDefault(command, ctx).flags, ctx),
           confidence |-> QuickCommandDefault(command, ctx).confidence]

\* PerformanceOptimizer._get_cached_recommendation: is there an entry younger than the TTL
CacheHit(key) ==
  /\ pattern_cache[key] # NoEntry
  /\ now - pattern_cache[key].timestamp < OptCacheTTL

CachedKeys(cache) == {k \in DOMAIN cache : cache[k] # NoEntry}

\* when each entry of cache was last used, key being used now
ServedAfter(cache, key) ==
  [k \in DOMAIN cache |-> IF cache[k] = NoEntry THEN NoTime
                          ELSE IF k = key THEN now ELSE lastServed[k]]

\* PerformanceOptimizer._cache_recommendation: store, then drop the entry with the
\* smallest timestamp while more than CacheCapacity entries are held
CacheAfterInsert(key, entry) ==
  LET with == [pattern_cache EXCEPT ![key] = entry]
  IN IF Cardinality(CachedKeys(with)) > CacheCapacity
     THEN LET oldest == CHOOSE k \in CachedKeys(with) :
                           \A o \in CachedKeys(with) : with[k].timestamp <= with[o].timestamp
          IN [with EXCEPT ![oldest] = NoEntry]
     ELSE with

\* PerformanceOptimizer._process_learning_enhancement
EnhancedResult(task) ==
  [enhanced_flags |-> IF "enhanced_flags" \in DOMAIN task.context
                      THEN task.context.enhanced_flags ELSE <<>>,
   enhanced_confidence |-> 95]

\* an enhancement that replaces the quick recommendation of the entry
EntryAfterEnhancementReplacing(entry, enhanced) ==
  [entry EXCEPT !.flags = enhanced.enhanced_flags,
                !.confidence = enhanced.enhanced_confidence,
                !.enhanced = TRUE]

\* PerformanceOptimizer._update_enhanced_cache: dict.update(enhanced_result), enhanced = True
EntryAfterEnhancement(entry, enhanced) ==
  [entry EXCEPT !.enhanced_flags = enhanced.enhanced_flags,
                !.enhanced_confidence = enhanced.enhanced_confidence,
                !.enhanced = TRUE]

\* PerformanceOptimizer.get_quick_recommendation: the QuickRecommendation returned
QuickResult(command, description, ctx) ==
  LET key == CacheKey(command, description, ctx)
      quick == QuickPatternMatch(command, description, ctx)
  IN IF CacheHit(key)
     THEN [key |-> key, ctx |-> ctx, hit |-> TRUE, flags |-> pattern_cache[key].flags,
           confidence |-> pattern_cache[key].confidence]
     ELSE [key |-> key, ctx |-> ctx, hit |-> FALSE, flags |-> quick.flags,
           confidence |-> quick.confidence]

\* PerformanceOptimizer.get_quick_recommendation: what the call does to the optimizer
QuickStateChange(command, description, ctx) ==
  LET key == CacheKey(command, description, ctx)
  IN IF CacheHit(key)
     THEN /\ lastServed' = ServedAfter(pattern_cache, key)
          /\ UNCHANGED <<pattern_cache, background_queue, is_processing, workerAlive,
                         workerTask, createdAs, poolVars>>
     ELSE LET quick == QuickPatternMatch(command, description, ctx)
              entry == [flags |-> quick.flags, confidence |-> quick.confidence,
                        timestamp |-> now, enhanced |-> FALSE,
                        enhanced_flags |-> <<>>, enhanced_confidence |-> 0]
          IN /\ Len(background_queue) < MaxQueue
             /\ pattern_cache' = CacheAfterInsert(key, entry)
             /\ background_queue' = Append(background_queue,
                                           [context |-> ctx, cache_key |-> key, timestamp |-> now])
             /\ is_processing' = TRUE
             /\ workerAlive' = TRUE
             /\ createdAs' = [createdAs EXCEPT ![key] =
                                [flags |-> quick.flags, confidence |-> quick.confidence]]
             /\ lastServed' = ServedAfter(CacheAfterInsert(key, entry), key)
             /\ UNCHANGED <<workerTask, poolVars>>

\* PerformanceOptimizer.get_quick_recommendation
GetQuickRecommendation(command, description, ctx) ==
  /\ QuickStateChange(command, description, ctx)
  /\ lastCall' = Returned("get_quick_recommendation", {QuickResult(command, description, ctx)})

QuickRecommend(command, description, ctx) ==
  /\ GetQuickRecommendation(command, description, ctx)
  /\ UNCHANGED <<storeVars, clockVars, collectorVars, engineVars, recLog, batchRuns,
                 feedbackCalls, concVars, procVars>>

\* PerformanceOptimizer._background_processor: task = self.background_queue.pop(0)
WorkerPop ==
  /\ workerAlive
  /\ workerTask = NoTask
  /\ Len(background_queue) > 0
  /\ workerTask' = Head(background_queue)
  /\ background_queue' = Tail(background_queue)
  /\ UNCHANGED <<pattern_cache, is_processing, workerAlive, createdAs, lastServed, lastCall,
                 poolVars>>
  /\ UNCHANGED <<storeVars, clockVars, collectorVars, engineVars, recLog, batchRuns,
                 feedbackCalls, concVars, procVars>>

\* _update_enhanced_cache storing the result without testing that the key is cached
WorkerFinishStoring ==
  /\ workerTask # NoTask
  /\ LET key == workerTask.cache_key
         enhanced == EnhancedResult(workerTask)
     IN pattern_cache' =
          IF pattern_cache[key] # NoEntry
          THEN [pattern_cache EXCEPT ![key] = EntryAfterEnhancement(@, enhanced)]
          ELSE [pattern_cache EXCEPT ![key] =
                  [flags |-> enhanced.enhanced_flags, confidence |-> enhanced.enhanced_confidence,
                   timestamp |-> now, enhanced |-> TRUE,
                   enhanced_flags |-> enhanced.enhanced_flags,
                   enhanced_confidence |-> enhanced.enhanced_confidence]]
  /\ workerTask' = NoTask
  /\ UNCHANGED <<background_queue, is_processing, workerAlive, createdAs, lastServed,
                 lastCall, poolVars>>
  /\ UNCHANGED <<storeVars, clockVars, collectorVars, engineVars, recLog, batchRuns,
                 feedbackCalls, concVars, procVars>>

\* PerformanceOptimizer._background_processor: the enhancement of the popped task
\* completes and _update_enhanced_cache runs
WorkerFinish ==
  /\ workerTask # NoTask
  /\ LET key == workerTask.cache_key
     IN pattern_cache' =
          IF pattern_cache[key] # NoEntry
          THEN [pattern_cache EXCEPT ![key] = EntryAfterEnhancement(@, EnhancedResult(workerTask))]
          ELSE pattern_cache
  /\ workerTask' = NoTask
  /\ UNCHANGED <<background_queue, is_processing, workerAlive, createdAs, lastServed,
                 lastCall, poolVars>>
  /\ UNCHANGED <<storeVars, clockVars, collectorVars, engineVars, recLog, batchRuns,
                 feedbackCalls, concVars, procVars>>

\* PerformanceOptimizer.clear_cache
ClearCache ==
  /\ pattern_cache' = [k \in DOMAIN pattern_cache |-> NoEntry]
  /\ lastServed' = [k \in DOMAIN lastServed |-> NoTime]
  /\ lastCall' = Returned("clear_cache", {})
  /\ UNCHANGED <<background_queue, is_processing, workerAlive, workerTask, createdAs, poolVars>>
  /\ UNCHANGED <<storeVars, clockVars, collectorVars, engineVars, recLog, batchRuns,
                 feedbackCalls, concVars, procVars>>

(***************************************************************************)
(* PerformanceOptimizer called from several threads                        *)
(***************************************************************************)
\* the part of the state the caller and worker threads of this section leave alone
PoolFrame ==
  UNCHANGED <<storeVars, clockVars, collectorVars, engineVars, recLog, batchRuns,
              feedbackCalls, concVars, procVars, workerAlive, workerTask>>

\* the caller returns the QuickRecommendation it has built
CallerReturn(c) ==
  /\ lastCall' = Returned("get_quick_recommendation",
                    {[key |-> callerLoc[c].key, hit |-> FALSE, flags |-> callerLoc[c].flags,
                      confidence |-> callerLoc[c].confidence]})
  /\ callerPc' = [callerPc EXCEPT ![c] = "idle"]
  /\ callerLoc' = [callerLoc EXCEPT ![c] = NoEntry]

\* get_quick_recommendation from the cache lookup to the append of
\* _queue_background_enhancement
CallerEnter(c, command, description, ctx) ==
  /\ callerPc[c] = "idle"
  /\ LET key == CacheKey(command, description, ctx)
     IN IF CacheHit(key)
        THEN /\ lastCall' = Returned("get_quick_recommendation",
                               {[key |-> key, hit |-> TRUE,
                                 flags |-> pattern_cache[key].flags,
                                 confidence |-> pattern_cache[key].confidence]})
             /\ lastServed' = ServedAfter(pattern_cache, key)
             /\ UNCHANGED <<pattern_cache, background_queue, createdAs, callerPc, callerLoc>>
        ELSE LET quick == QuickPatternMatch(command, description, ctx)
                 entry == [flags |-> quick.flags, confidence |-> quick.confidence,
                           timestamp |-> now, enhanced |-> FALSE,
                           enhanced_flags |-> <<>>, enhanced_confidence |-> 0]
             IN /\ Len(background_queue) < MaxQueue
                /\ pattern_cache' = CacheAfterInsert(key, entry)
                /\ background_queue' = Append(background_queue,
                                           [context |-> ctx, cache_key |-> key, timestamp |-> now])
                /\ createdAs' = [createdAs EXCEPT ![key] =
                                   [flags |-> quick.flags, confidence |-> quick.confidence]]
                /\ callerLoc' = [callerLoc EXCEPT ![c] =
                                   [key |-> key, flags |-> quick.flags,
                                    confidence |-> quick.confidence]]
                /\ callerPc' = [callerPc EXCEPT ![c] = "check_processing"]
                /\ lastServed' = ServedAfter(CacheAfterInsert(key, entry), key)
                /\ UNCHANGED lastCall
  /\ UNCHANGED <<is_processing, background_thread, threads>>
  /\ PoolFrame

\* _queue_background_enhancement: if not self.is_processing
CallerCheckProcessing(c) ==
  /\ callerPc[c] = "check_processing"
  /\ IF is_processing
     THEN CallerReturn(c)
     ELSE /\ callerPc' = [callerPc EXCEPT ![c] = "check_alive"]
          /\ UNCHANGED <<callerLoc, lastCall>>
  /\ UNCHANGED <<pattern_cache, background_queue, is_processing, createdAs, lastServed,
                 background_thread, threads>>
  /\ PoolFrame

\* _start_background_processing: if self.background_thread and is_alive(): return.
\* A started thread stays alive: its loop runs while is_processing, which is reset
\* only after the loop.
CallerCheckAlive(c) ==
  /\ callerPc[c] = "check_alive"
  /\ IF background_thread # NoThread /\ threads[background_thread].started
     THEN CallerReturn(c)
     ELSE /\ callerPc' = [callerPc EXCEPT ![c] = "set_processing"]
          /\ UNCHANGED <<callerLoc, lastCall>>
  /\ UNCHANGED <<pattern_cache, background_queue, is_processing, createdAs, lastServed,
                 background_thread, threads>>
  /\ PoolFrame

\* _start_background_processing: self.is_processing = True
CallerSetProcessing(c) ==
  /\ callerPc[c] = "set_processing"
  /\ is_processing' = TRUE
  /\ callerPc' = [callerPc EXCEPT ![c] = "create_thread"]
  /\ UNCHANGED <<pattern_cache, background_queue, createdAs, lastServed, background_thread,
                 threads, callerLoc, lastCall>>
  /\ PoolFrame

\* _start_background_processing: self.background_thread = threading.Thread(...)
CallerCreateThread(c) ==
  /\ callerPc[c] = "create_thread"
  /\ threads' = Append(threads, [started |-> FALSE, task |-> NoTask])
  /\ background_thread' = Len(threads) + 1
  /\ callerPc' = [callerPc EXCEPT ![c] = "start_thread"]
  /\ UNCHANGED <<pattern_cache, background_queue, is_processing, createdAs, lastServed,
                 callerLoc, lastCall>>
  /\ PoolFrame

\* _start_background_processing without self.background_thread.start(): the thread
\* object is kept and never runs
CallerStartThreadMissing(c) ==
  /\ callerPc[c] = "start_thread"
  /\ CallerReturn(c)
  /\ UNCHANGED <<pattern_cache, background_queue, is_processing, createdAs, lastServed,
                 background_thread, threads>>
  /\ PoolFrame

\* _start_background_processing: self.background_thread.start().  Starting a thread
\* that another caller has started already raises RuntimeError, which
\* get_quick_recommendation answers with its error-recovery recommendation.
CallerStartThread(c) ==
  /\ callerPc[c] = "start_thread"
  /\ IF threads[background_thread].started
     THEN /\ lastCall' = Returned("get_quick_recommendation",
                               {[key |-> callerLoc[c].key, hit |-> FALSE,
                                 flags |-> <<"--think", "--uc">>, confidence |-> 60]})
          /\ callerPc' = [callerPc EXCEPT ![c] = "idle"]
          /\ callerLoc' = [callerLoc EXCEPT ![c] = NoEntry]
          /\ UNCHANGED threads
     ELSE /\ threads' = [threads EXCEPT ![background_thread].started = TRUE]
          /\ CallerReturn(c)
  /\ UNCHANGED <<pattern_cache, background_queue, is_processing, createdAs, lastServed,
                 background_thread>>
  /\ PoolFrame

\* _background_processor run by thread t: task = self.background_queue.pop(0)
ThreadPop(t) ==
  /\ threads[t].started
  /\ threads[t].task = NoTask
  /\ Len(background_queue) > 0
  /\ threads' = [threads EXCEPT ![t].task = Head(background_queue)]
  /\ background_queue' = Tail(background_queue)
  /\ UNCHANGED <<pattern_cache, is_processing, createdAs, lastServed, background_thread,
                 callerPc, callerLoc, lastCall>>
  /\ PoolFrame

\* _background_processor run by thread t: the enhancement completes and
\* _update_enhanced_cache runs
ThreadFinish(t) ==
  /\ threads[t].task # NoTask
  /\ LET key == threads[t].task.cache_key
     IN pattern_cache' =
          IF pattern_cache[key] # NoEntry
          THEN [pattern_cache EXCEPT ![key] =
                  EntryAfterEnhancement(@, EnhancedResult(threads[t].task))]
          ELSE pattern_cache
  /\ threads' = [threads EXCEPT ![t].task = NoTask]
  /\ UNCHANGED <<background_queue, is_processing, createdAs, lastServed, background_thread,
                 callerPc, callerLoc, lastCall>>
  /\ PoolFrame

\* the threads that are consuming the queue
Consumers == {t \in 1..Len(threads) : threads[t].started}

(***************************************************************************)
(* PatternMatcher                                                          *)
(***************************************************************************)
\* PatternMatcher._get_default_rules, in dict order
DefaultRules ==
  <<[name |-> "analyze_general",
     keywords |-> {"analyze", "bunseok", "review", "geomto"},
     base_flags |-> <<"--persona-analyzer", "--think">>, confidence |-> 85],
    [name |-> "analyze_security",
     keywords |-> {"security", "boan", "vulnerability", "chwiyakjeom", "audit"},
     base_flags |-> <<"--persona-security", "--focus", "security", "--think", "--validate">>,
     confidence |-> 95],
    [name |-> "analyze_performance",
     keywords |-> {"performance", "seongneung", "optimize", "choejeokhwa", "bottleneck"},
     base_flags |-> <<"--persona-performance", "--think-hard", "--focus", "performance">>,
     confidence |-> 90],
    [name |-> "implement_ui",
     keywords |-> {"component", "keomponeonteu", "ui", "interface", "frontend"},
     base_flags |-> <<"--persona-frontend", "--magic", "--c7">>, confidence |-> 94],
    [name |-> "implement_api",
     keywords |-> {"api", "endpoint", "backend", "server", "seobeo"},
     base_flags |-> <<"--persona-backend", "--seq", "--c7">>, confidence |-> 92],
    [name |-> "improve_quality",
     keywords |-> {"improve", "gaeseon", "refactor", "ripaektoring", "cleanup"},
     base_flags |-> <<"--persona-refactorer", "--loop", "--validate">>, confidence |-> 88]>>

\* PatternMatcher._load_orchestrator_patterns: each regular expression is
\* (first alternatives).*(then alternatives)
OrchestratorPatterns ==
  <<[name |-> "analyze_architecture", first |-> {"analyze", "bunseok"},
     then |-> {"architecture", "akitekcheo"},
     flags |-> <<"--persona-architect", "--ultrathink", "--seq">>, confidence |-> 95],
    [name |-> "security_audit", first |-> {"security", "boan"}, then |-> {"audit", "gamsa"},
     flags |-> <<"--persona-security", "--ultrathink", "--seq", "--validate">>,
     confidence |-> 95],
    [name |-> "implement_auth", first |-> {"implement", "guhyeon"},
     then |-> {"auth", "injeung"},
     flags |-> <<"--persona-security", "--persona-backend", "--validate">>, confidence |-> 90],
    [name |-> "optimize_performance", first |-> {"optimize", "choejeokhwa"},
     then |-> {"performance", "seongneung"},
     flags |-> <<"--persona-performance", "--think-hard", "--play">>, confidence |-> 90]>>

\* re.search(pattern_info['pattern'], full_text)
RegexMatches(pat, text) ==
  \E i \in 1..Len(text), j \in 1..Len(text) :
     i < j /\ text[i] \in pat.first /\ text[j] \in pat.then

\* PatternMatcher._calculate_match_score: the score is matches / of
MatchScore(text, keywords) ==
  [matches |-> Cardinality({k \in keywords : Occurs(text, k)}), of |-> Cardinality(keywords)]

\* a.matches / a.of > b.matches / b.of
ScoreAbove(a, b) == a.matches * b.of > b.matches * a.of

PriorityPatterns ==
  <<"analyze_security", "analyze_performance", "analyze_architecture",
    "implement_authentication">>

RuleIndex(rules, name) ==
  IF \E k \in 1..Len(rules) : rules[k].name = name
  THEN CHOOSE k \in 1..Len(rules) : rules[k].name = name
  ELSE 0

\* find_best_match: the first priority pattern of the rules that matches a keyword, or 0
FirstPriorityMatch(rules, text) ==
  LET hits == {k \in 1..Len(PriorityPatterns) :
                 /\ RuleIndex(rules, PriorityPatterns[k]) # 0
                 /\ MatchScore(text, rules[RuleIndex(rules, PriorityPatterns[k])].keywords).matches > 0}
  IN IF hits = {} THEN 0
     ELSE RuleIndex(rules, PriorityPatterns[CHOOSE k \in hits : \A o \in hits : k <= o])

\* find_best_match: the first pattern with the highest score above 0, or 0
BestGeneralMatch(rules, text) ==
  LET score(k) == MatchScore(text, rules[k].keywords)
      best == {j \in 1..Len(rules) :
                 /\ score(j).matches > 0
                 /\ \A i \in 1..Len(rules) : ~ScoreAbove(score(i), score(j))
                 /\ \A i \in 1..(j - 1) : ScoreAbove(score(j), score(i))}
  IN IF best = {} THEN 0 ELSE CHOOSE j \in best : TRUE

\* int(confidence * (0.5 + highest_score * 0.5)) without the cap, highest_score being
\* matches / of, plus 0.5 for a priority pattern
MatchConfidenceUncapped(confidence, score, bonus) ==
  (confidence * (2 * score.of + 2 * score.matches + bonus * score.of)) \div (4 * score.of)

\* min(95, int(confidence * (0.5 + highest_score * 0.5)))
MatchConfidence(confidence, score, bonus) ==
  Min(95, (confidence * (2 * score.of + 2 * score.matches + bonus * score.of))
            \div (4 * score.of))

\* PatternMatcher._apply_context_modifiers.  The tests are substring tests on the flag
\* string: '--think' is found in '--think-hard', 'analyze' in '--persona-analyzer'.
ApplyContextModifiers(base_flags, ctx) ==
  LET f1 == IF /\ ctx.complexity = "complex"
               /\ (HasFlag(base_flags, "--think") \/ HasFlag(base_flags, "--think-hard"))
               /\ ~HasFlag(base_flags, "--think-hard")
            THEN [k \in 1..Len(base_flags) |->
                    IF base_flags[k] = "--think" THEN "--think-hard" ELSE base_flags[k]]
            ELSE base_flags
      f2 == IF /\ ctx.project_type = "python_backend"
               /\ ~HasFlag(f1, "--persona-backend")
               /\ HasFlag(f1, "--persona-analyzer")
            THEN Append(f1, "--validate") ELSE f1
      f3 == IF ctx.file_count > 50 THEN Append(f2, "--delegate") ELSE f2
  IN Append(f3, "--uc")

\* PatternMatcher._get_default_recommendation
DefaultRecommendation(command, ctx) ==
  IF command = "analyze"
  THEN [raised |-> "none", flags |-> <<"--persona-analyzer", "--think", "--uc">>, confidence |-> 70]
  ELSE IF command = "implement"
  THEN [raised |-> "none",
        flags |-> IF ctx.project_type = "python_backend"
                  THEN <<"--persona-backend", "--c7", "--uc">>
                  ELSE <<"--persona-frontend", "--magic", "--uc">>,
        confidence |-> 75]
  ELSE IF command = "improve"
  THEN [raised |-> "none", flags |-> <<"--persona-refactorer", "--think", "--uc">>, confidence |-> 70]
  ELSE [raised |-> "none", flags |-> <<"--think", "--uc">>, confidence |-> 60]

\* PatternMatcher.find_best_match on a matcher whose rules are the built-in ones
\* ("default") or a loaded document without a 'patterns' mapping ("no_patterns")
FindBestMatch(rules, command, description, ctx) ==
  LET text == FullText(command, description)
      orch == {k \in 1..Len(OrchestratorPatterns) : RegexMatches(OrchestratorPatterns[k], text)}
  IN IF orch # {}
     THEN LET o == OrchestratorPatterns[CHOOSE k \in orch : \A j \in orch : k <= j]
          IN [raised |-> "none", flags |-> o.flags, confidence |-> o.confidence]
     ELSE IF rules = "no_patterns"
     THEN [raised |-> "KeyError", flags |-> <<>>, confidence |-> 0]
     ELSE LET pri == FirstPriorityMatch(DefaultRules, text)
              best == IF pri # 0 THEN pri ELSE BestGeneralMatch(DefaultRules, text)
              bonus == IF pri # 0 THEN 1 ELSE 0
          IN IF best # 0
             THEN [raised |-> "none",
                   flags |-> ApplyContextModifiers(DefaultRules[best].base_flags, ctx),
                   confidence |-> MatchConfidence(DefaultRules[best].confidence,
                                                  MatchScore(text, DefaultRules[best].keywords),
                                                  bonus)]
             ELSE DefaultRecommendation(command, ctx)

(***************************************************************************)
(* PersonalizedAdaptiveRecommender: the user profile                       *)
(***************************************************************************)
ProfileCacheTTL == 1800
MinInteractionsForPersonalization == 10
ProfileWindowDays == 90
Complexities == {"moderate", "complex"}

\* success rate, in thousandths, of the interactions among ids that satisfy sel, or
\* NoWeight when fewer than two do
PreferenceOver(ids, sel(_)) ==
  LET with == {i \in ids : sel(interactions[i])}
      ok == {i \in with : interactions[i].success}
  IN IF Cardinality(with) >= 2 THEN (Cardinality(ok) * 1000) \div Cardinality(with)
     ELSE NoWeight

\* PersonalizedAdaptiveRecommender._create_default_profile
DefaultProfile ==
  [total_interactions |-> 0,
   project_type_preferences |-> [t \in ProjectTypes |-> 1000],
   complexity_preferences |-> [c \in Complexities |-> IF c = "moderate" THEN 1000 ELSE 800]]

\* PersonalizedAdaptiveRecommender._build_user_profile: the fields that the confidence
\* of a recommendation depends on
BuildUserProfile ==
  LET ids == Visible(ProfileWindowDays)
  IN IF Cardinality(ids) < 3 THEN DefaultProfile
     ELSE [total_interactions |-> Cardinality(ids),
           project_type_preferences |->
             [t \in ProjectTypes |->
                PreferenceOver(ids, LAMBDA row : row.project_context.project_type = t)],
           complexity_preferences |->
             [c \in Complexities |->
                PreferenceOver(ids, LAMBDA row : row.project_context.complexity = c)]]

\* PersonalizedAdaptiveRecommender._get_user_profile
ProfileCacheFresh ==
  user_profile_cache # NoProfile /\ now - profile_cache_time < ProfileCacheTTL

ProfileAfterLoad == IF ProfileCacheFresh THEN user_profile_cache ELSE BuildUserProfile

\* dict.get(key, 0.5) on a preference table, in thousandths
PreferenceOrNeutral(table, key) ==
  IF key \in DOMAIN table /\ table[key] # NoWeight THEN table[key] ELSE 500

\* int(x) for x = num / den: truncation towards zero
TruncDiv(num, den) == IF num >= 0 THEN num \div den ELSE 0 - ((0 - num) \div den)

\* PersonalizedAdaptiveRecommender._calculate_personalized_confidence
PersonalizedConfidence(base_confidence, profile, ctx) ==
  LET interaction_factor == Min(profile.total_interactions * 20, 1000)
      project_preference == PreferenceOrNeutral(profile.project_type_preferences,
                                                ctx.project_type)
      complexity_preference == PreferenceOrNeutral(profile.complexity_preferences,
                                                   ctx.complexity)
      boost500 == interaction_factor * 3 + (project_preference - 500) * 4
                  + (complexity_preference - 500) * 3
  IN Max(50, Min(98, TruncDiv(base_confidence * 500 + boost500, 500)))

\* PersonalizedAdaptiveRecommender.get_personalized_recommendation with a dict
\* context.  Of the returned PersonalizedRecommendation the confidence and
\* fallback_used are observed.
GetPersonalizedRecommendation(ui, ctx) ==
  /\ IF StoreDown
     THEN /\ lastCall' = Raised("get_personalized_recommendation", "DatabaseError")
          /\ UNCHANGED <<engineVars, recLog, user_profile_cache, profile_cache_time>>
     ELSE LET profile == ProfileAfterLoad
              parsed == ParseUserInput(ui)
              cache == CacheAfterLoad
              base == RecommendationFrom(cache, parsed.command, ctx)
              personalize == profile.total_interactions >= MinInteractionsForPersonalization
          IN /\ user_profile_cache' = profile
             /\ profile_cache_time' = IF ProfileCacheFresh THEN profile_cache_time ELSE now
             /\ engine_cache' = cache
             /\ cache_timestamp' = IF now - cache_timestamp > CacheTTL THEN now
                                   ELSE cache_timestamp
             /\ recLog' = {[command |-> parsed.command, description |-> parsed.description,
                            ctx |-> ctx, snapshot |-> StoreSnapshot, at |-> now,
                            flags |-> base.flags, confidence |-> base.confidence]}
             /\ lastCall' = Returned("get_personalized_recommendation",
                               {[confidence |-> IF personalize
                                                THEN PersonalizedConfidence(base.confidence,
                                                                            profile, ctx)
                                                ELSE base.confidence,
                                 fallback_used |-> ~personalize]})
  /\ UNCHANGED <<storeVars, clockVars, collectorVars, batchRuns, feedbackCalls, concVars,
                 optVars, installation, rulesFile, processor>>

(***************************************************************************)
(* SCCommandProcessor                                                      *)
(***************************************************************************)
Installations == {"full", "optimizer_only", "none"}
RulesFiles == {"missing", "invalid_yaml", "no_patterns"}

\* LEARNING_ENABLED: the import of adaptive_recommender, data_collector and
\* feedback_processor succeeded
LearningEnabled == installation = "full"

\* `from performance_optimizer import quick_recommend` succeeds; that module needs
\* none of the packages the learning modules import
OptimizerImportable == installation \in {"full", "optimizer_only"}

\* import of claude_sc_preprocessor: the try / except ImportError at module level
ImportPreprocessor(found) ==
  /\ installation = "unknown"
  /\ installation' = found
  /\ UNCHANGED <<storeVars, clockVars, collectorVars, engineVars, obsVars, concVars, optVars,
                 rulesFile, processor, user_profile_cache, profile_cache_time>>

\* something outside the program writes the file at rules_path
WriteRulesFile(kind) ==
  /\ processor = NoProcessor
  /\ rulesFile # kind
  /\ rulesFile' = kind
  /\ UNCHANGED <<storeVars, clockVars, collectorVars, engineVars, obsVars, concVars, optVars,
                 installation, processor, user_profile_cache, profile_cache_time>>

\* PatternMatcher._load_rules: FileNotFoundError is the only exception handled
LoadRules ==
  IF rulesFile = "missing" THEN [raised |-> "none", rules |-> "default"]
  ELSE IF rulesFile = "invalid_yaml" THEN [raised |-> "YAMLError", rules |-> "none"]
  ELSE [raised |-> "none", rules |-> "no_patterns"]

\* SCCommandProcessor.__init__
ConstructProcessor ==
  /\ installation # "unknown"
  /\ processor = NoProcessor
  /\ IF LoadRules.raised # "none"
     THEN /\ lastCall' = Raised("SCCommandProcessor", LoadRules.raised)
          /\ UNCHANGED processor
     ELSE IF LearningEnabled /\ StoreDown
     THEN /\ lastCall' = Raised("SCCommandProcessor", "DatabaseError")
          /\ UNCHANGED processor
     ELSE /\ processor' = [pattern_matcher |-> LoadRules.rules,
                           recommender |-> LearningEnabled,
                           data_collector |-> LearningEnabled,
                           feedback_processor |-> LearningEnabled,
                           current_interaction_id |-> NoId]
          /\ lastCall' = Returned("SCCommandProcessor", {[rules |-> LoadRules.rules]})
  /\ UNCHANGED <<storeVars, clockVars, collectorVars, engineVars, recLog, batchRuns,
                 feedbackCalls, concVars, optVars, installation, rulesFile,
                 user_profile_cache, profile_cache_time>>

\* a caller sets pattern_matcher, recommender and data_collector to None
BreakComponents ==
  /\ processor # NoProcessor
  /\ processor.pattern_matcher # "none"
  /\ processor' = [processor EXCEPT !.pattern_matcher = "none", !.recommender = FALSE,
                                    !.data_collector = FALSE]
  /\ UNCHANGED <<storeVars, clockVars, collectorVars, engineVars, obsVars, concVars, optVars,
                 installation, rulesFile, user_profile_cache, profile_cache_time>>

\* what process returns when an exception other than the handled ones ends it
ProcessOutcomePropagating(ui, error, rec) ==
  IF error # "none" THEN Raised("process", error)
  ELSE Returned("process", {[input |-> ui, error |-> "none", output |-> rec]})

\* SCCommandProcessor.process: `except Exception` returns user_input
ProcessOutcome(ui, error, rec) ==
  IF error # "none"
  THEN Returned("process", {[input |-> ui, error |-> error, output |-> [changed |-> FALSE]]})
  ELSE Returned("process", {[input |-> ui, error |-> "none", output |-> rec]})

Unchanged == [changed |-> FALSE]
Enhanced(mode, rec) ==
  [changed |-> TRUE, mode |-> mode, flags |-> rec.flags, confidence |-> rec.confidence]

\* pattern_matcher.find_best_match as process calls it
ProcessorMatch(command, description, ctx) ==
  IF processor.pattern_matcher = "none"
  THEN [raised |-> "AttributeError", flags |-> <<>>, confidence |-> 0]
  ELSE FindBestMatch(processor.pattern_matcher, command, description, ctx)

\* SCCommandProcessor.process(user_input, quick_mode) in a project whose analysed
\* context is ctx
Process(ui, quick_mode, ctx) ==
  /\ processor # NoProcessor
  /\ IF ~ui.sc
     THEN \* not a '/sc:' command: returned as it is
          /\ lastCall' = ProcessOutcome(ui, "none", Unchanged)
          /\ UNCHANGED <<interaction_start_time, engineVars, optVars, user_profile_cache,
                         profile_cache_time>>
     ELSE IF quick_mode /\ OptimizerImportable
     THEN \* quick mode: quick_recommend, no interaction is started
          /\ QuickStateChange(ui.command, ui.description, ctx)
          /\ lastCall' = ProcessOutcome(ui, "none",
                            Enhanced("quick", QuickResult(ui.command, ui.description, ctx)))
          /\ UNCHANGED <<interaction_start_time, engineVars, user_profile_cache,
                         profile_cache_time>>
     ELSE IF LearningEnabled /\ processor.recommender
     THEN \* get_personalized_recommendation is given the ProjectContext dataclass: it
          \* loads the profile and the engine's pattern cache and then fails on
          \* project_context.get (AttributeError, or DatabaseError on a damaged store);
          \* _get_learning_based_recommendation falls back to the pattern matcher.
          \* start_interaction then fails in record_interaction, on
          \* json.dumps(project_context) (TypeError), after setting its start time.
          LET rec == ProcessorMatch(ui.command, ui.description, ctx)
              loadProfile == ~StoreDown
              loadEngine == ~StoreDown
          IN /\ user_profile_cache' = IF loadProfile THEN ProfileAfterLoad
                                      ELSE user_profile_cache
             /\ profile_cache_time' = IF loadProfile /\ ~ProfileCacheFresh THEN now
                                      ELSE profile_cache_time
             /\ engine_cache' = IF loadEngine THEN CacheAfterLoad ELSE engine_cache
             /\ cache_timestamp' = IF loadEngine /\ now - cache_timestamp > CacheTTL THEN now
                                   ELSE cache_timestamp
             /\ IF rec.raised # "none"
                THEN /\ lastCall' = ProcessOutcome(ui, rec.raised, Unchanged)
                     /\ UNCHANGED interaction_start_time
                ELSE IF processor.data_collector
                THEN /\ interaction_start_time' = now
                     /\ lastCall' = ProcessOutcome(ui, "TypeError", Unchanged)
                ELSE /\ lastCall' = ProcessOutcome(ui, "none", Enhanced("legacy", rec))
                     /\ UNCHANGED interaction_start_time
             /\ UNCHANGED optVars
     ELSE \* static pattern matching
          LET rec == ProcessorMatch(ui.command, ui.description, ctx)
          IN /\ lastCall' = IF rec.raised # "none"
                            THEN ProcessOutcome(ui, rec.raised, Unchanged)
                            ELSE ProcessOutcome(ui, "none", Enhanced("legacy", rec))
             /\ UNCHANGED <<interaction_start_time, engineVars, optVars, user_profile_cache,
                            profile_cache_time>>
  /\ UNCHANGED <<storeVars, clockVars, current_interaction_id, recLog, batchRuns,
                 feedbackCalls, concVars, installation, rulesFile, processor>>

\* SCCommandProcessor.record_execution_result.  With an interaction to close it calls
\* end_interaction and then process_immediate_feedback, whose NameError it prints;
\* current_interaction_id is then not reset.
RecordExecutionResult(success, err) ==
  /\ processor # NoProcessor
  /\ IF ~LearningEnabled \/ processor.current_interaction_id = NoId \/ ~processor.data_collector
     THEN /\ lastCall' = Returned("record_execution_result", {})
          /\ UNCHANGED <<storeVars, clockVars, collectorVars, engineVars, recLog, batchRuns,
                         feedbackCalls, concVars, optVars, procVars>>
     ELSE EndInteraction(success, err)

\* PatternMatcher(rules_path).find_best_match called directly
MatcherCall(command, description, ctx) ==
  /\ LET loaded == LoadRules
         rec == IF loaded.raised # "none"
                THEN [raised |-> loaded.raised, flags |-> <<>>, confidence |-> 0]
                ELSE FindBestMatch(loaded.rules, command, description, ctx)
     IN lastCall' = IF rec.raised # "none" THEN Raised("find_best_match", rec.raised)
                    ELSE Returned("find_best_match",
                                  {[command |-> command, description |-> description,
                                    ctx |-> ctx, flags |-> rec.flags, confidence |-> rec.confidence,
                                    rules |-> loaded.rules]})
  /\ UNCHANGED <<storeVars, clockVars, collectorVars, engineVars, recLog, batchRuns,
                 feedbackCalls, concVars, optVars, procVars>>

(***************************************************************************)
(* Store, collector and feedback processor used by one caller at a time    *)
(***************************************************************************)
EmptyStore ==
  /\ pattern_success = [p \in Patterns |-> NoRow]
  /\ patternOrder = <<>>
  /\ user_preferences = [k \in Projects \X Patterns |-> NoWeight]
  /\ concBase = [total |-> 0, succ |-> 0]

Init == InitCommon /\ EmptyStore

MainSteps == {1, OneDay + 1}
MainRec == [flags |-> <<"--persona-security", "--think">>, confidence |-> 90]
UnknownIds == 1..(MaxInteractions + 1)
MainInputs == {ui \in UserInputs : ui.description = "security" \/ ~ui.sc}

\* the collector and the pattern statistics
Next ==
  \/ \E ui \in MainInputs : StartInteraction(ui, MainRec, CtxSmall)
  \/ \E success \in BOOLEAN, err \in ErrKinds : EndInteraction(success, err)
  \/ \E success \in BOOLEAN : UpdatePatternSuccess(ConcPattern, success, CtxSmall)
  \/ \E d \in MainSteps : Tick(d)

Spec == Init /\ [][Next]_vars

(***************************************************************************)
(* Feedback records and feedback processing                                *)
(***************************************************************************)
FeedbackSteps == {1, 7 * OneDay + 1}

NextFeedback ==
  \/ \E row \in {r \in DirectRows : r.project_hash = CurrentProject} : RecordInteraction(row)
  \/ StartInteraction([sc |-> TRUE, command |-> "analyze", description |-> "security"],
                      MainRec, CtxSmall)
  \/ \E iid \in UnknownIds : RecordFeedback(iid, 4)
  \/ \E iid \in UnknownIds, success \in BOOLEAN, t \in ExecTimes :
        ProcessImmediateFeedback(iid, success, t)
  \/ \E iid \in UnknownIds, rating \in 1..5 : ProcessExplicitFeedback(iid, rating)
  \/ \E days \in {7, 30} : ProcessBatchFeedback(days)
  \/ \E d \in FeedbackSteps : Tick(d)

SpecFeedback == Init /\ [][NextFeedback]_vars

(***************************************************************************)
(* The store on a damaged database file                                    *)
(***************************************************************************)
NextFail ==
  \/ OpenStore
  \/ CorruptDb
  \/ \E row \in DirectRows : RecordInteraction(row)
  \/ \E days \in {1, 7} : GetUserInteractions(days)
  \/ CleanupOldData(90)
  \/ \E d \in {OneDay + 1, 90 * OneDay + 1} : Tick(d)

SpecFail == Init /\ [][NextFail]_vars

(***************************************************************************)
(* Properties                                                              *)
(***************************************************************************)
\* C2: after start_interaction and end_interaction(success, ...) the interaction row
\* holds the analysed outcome and the execution time that end_interaction computed,
\* in place of the initial success = False, execution_time = 0.0.
C2_InteractionClosedOnce ==
  (lastCall.op = "end_interaction" /\ lastCall.raised = "none") =>
     \A r \in lastCall.result :
        r.id \in DOMAIN interactions =>
           /\ interactions[r.id].success = r.success
           /\ interactions[r.id].execution_time = r.execution_time

\* C4: every pattern_success row has 0 <= successful_uses <= total_uses and a
\* success_rate equal to successful_uses / total_uses.
C4_PatternRowConsistent ==
  \A p \in Patterns :
     pattern_success[p] # NoRow =>
        /\ 0 <= pattern_success[p].successful_uses
        /\ pattern_success[p].successful_uses <= pattern_success[p].total_uses
        /\ pattern_success[p].success_rate =
              Rate(pattern_success[p].successful_uses, pattern_success[p].total_uses)

\* a row updated at least twice, with successes and failures mixed
C4_Witness ==
  /\ pattern_success[ConcPattern] # NoRow
  /\ pattern_success[ConcPattern].total_uses >= 2
  /\ pattern_success[ConcPattern].successful_uses = 1

\* C7: every feedback row references an interaction recorded before it, and feedback
\* submitted for an interaction id that is not in the store returns silently.
C7_FeedbackReferencesInteraction ==
  /\ \A k \in 1..Len(feedback) : feedback[k].interaction_id \in 1..(nextId - 1)
  /\ lastCall.op \in {"record_feedback", "process_immediate_feedback",
                      "process_explicit_feedback"} => lastCall.raised = "none"

\* C8: on a corrupted database file get_user_interactions returns an empty list and
\* neither it nor opening the store raises.
C8_CorruptStoreReadsEmpty ==
  (dbFile = "corrupt" /\ lastCall.op \in {"get_user_interactions", "LearningStorage"}) =>
     /\ lastCall.raised = "none"
     /\ lastCall.result = {}

\* C9: a process_batch_feedback run that directly follows another run over the same
\* window, with no interaction recorded in between, returns no ProcessedFeedback for an
\* interaction the earlier run returned one for.
C9_BatchIdempotent ==
  [][(/\ lastCall.op = "process_batch_feedback"
      /\ lastCall.raised = "none"
      /\ batchRuns' = batchRuns + 1
      /\ nextId' = nextId)
     => lastCall'.result \cap lastCall.result = {}]_vars

\* the optimizer's cache with its background worker
InitCache ==
  /\ InitCommon
  /\ EmptyStore

CacheSteps == {1, OptCacheTTL}

NextCache ==
  \/ \E description \in Descriptions, ctx \in Contexts : QuickRecommend("analyze", description, ctx)
  \/ WorkerPop
  \/ WorkerFinish
  \/ ClearCache
  \/ \E d \in CacheSteps : Tick(d)

SpecCache == InitCache /\ [][NextCache]_vars

\* C3: every preference-weight update stores clamp(old + delta, 0.1, 2.0), old being the
\* weight stored for that project and pattern or 1.0 if none is stored; so every stored
\* weight stays within [0.1, 2.0] (weights in hundredths).
C3_WeightClamped ==
  /\ [](\A k \in Projects \X Patterns :
          user_preferences[k] = NoWeight \/ (10 <= user_preferences[k] /\ user_preferences[k] <= 200))
  /\ [][(lastCall'.op = "update_learning_from_feedback" /\ feedbackCalls' # feedbackCalls) =>
          \A r \in lastCall'.result :
             LET k == <<r.project, r.pattern>>
                 old == IF user_preferences[k] = NoWeight THEN 100 ELSE user_preferences[k]
             IN user_preferences'[k] = Max(10, Min(200, old + r.delta))]_vars

\* an update whose sum left the range has been stored at the bound
C3_Witness ==
  /\ lastCall.op = "update_learning_from_feedback"
  /\ \E r \in lastCall.result :
        /\ r.old + r.delta > 200
        /\ user_preferences[<<r.project, r.pattern>>] = 200

\* C5: two get_adaptive_recommendation calls with the same command, description and
\* context return the same flags and confidence whenever the store contents are the
\* same at both calls (here even at the same clock reading), whatever was done to the
\* engine in between.
C5_PureFunctionOfStore ==
  [][\A a \in recLog, b \in recLog' :
        (a.command = b.command /\ a.description = b.description /\ a.ctx = b.ctx
         /\ a.snapshot = b.snapshot /\ a.at = b.at)
        => (a.flags = b.flags /\ a.confidence = b.confidence)]_vars

\* C10: the recommendation that follows an update_learning_from_feedback call scores the
\* pattern with the weight that call has stored.
C10_WriteVisibleToNextRecommendation ==
  [][(lastCall.op = "update_learning_from_feedback"
      /\ lastCall'.op = "get_adaptive_recommendation") =>
        \A r \in lastCall.result, rec \in lastCall'.result :
           \A u \in rec.used :
              u.pattern = r.pattern => u.preference = user_preferences[<<r.project, r.pattern>>]]_vars

C11_FeedbackAppliedToStore ==
  [][(/\ lastCall' # lastCall
      /\ lastCall'.op \in {"process_immediate_feedback", "process_explicit_feedback"}
      /\ lastCall'.target \in DOMAIN interactions)
     => LET row == interactions[lastCall'.target]
            p == IdentifyPattern(row.command, row.description)
            k == <<row.project_hash, p>>
            old == IF user_preferences[k] = NoWeight THEN 100 ELSE user_preferences[k]
        IN /\ lastCall'.raised = "none"
           /\ \E delta \in -10..10 : user_preferences'[k] = Max(10, Min(200, old + delta))
           /\ pattern_success'[p] # pattern_success[p]]_vars

(***************************************************************************)
(* Runs in which every outcome is reported as successful                   *)
(***************************************************************************)
SuccessSteps == {1, CacheTTL + 1}

NextSuccessRun ==
  \/ StartInteraction([sc |-> TRUE, command |-> "analyze", description |-> "security"],
                      MainRec, CtxSmall)
  \/ \E err \in {"none", "keyword"} : EndInteraction(TRUE, err)
  \/ GetAdaptiveRecommendation("analyze", "security", CtxSmall)
  \/ \E iid \in UnknownIds : UpdateLearningFromFeedback(iid, TRUE, 150, 2)
  \/ \E d \in SuccessSteps : Tick(d)

SpecSuccessRun == InitConc /\ [][NextSuccessRun]_vars

\* C12: while every outcome is reported as successful (end_interaction(success=True),
\* update_learning_from_feedback(success=True)), the stored success_rate of a pattern
\* never decreases from one report to the next and never exceeds 1.0.
C12_SuccessRateMonotone ==
  [][\A p \in Patterns :
        (pattern_success[p] # NoRow /\ pattern_success'[p] # NoRow) =>
           /\ pattern_success'[p].success_rate >= pattern_success[p].success_rate
           /\ pattern_success'[p].success_rate <= 1000]_vars

\* C15: every process_immediate_feedback and process_explicit_feedback call, for a known
\* or an unknown interaction id, completes without raising and returns a
\* ProcessedFeedback whose learning_weight is greater than 0.
C15_FeedbackCallsComplete ==
  lastCall.op \in {"process_immediate_feedback", "process_explicit_feedback"} =>
     /\ lastCall.raised = "none"
     /\ \E r \in lastCall.result : r.learning_weight > 0

(***************************************************************************)
(* Retention: the store under recording, learning and cleanup              *)
(***************************************************************************)
RetentionSteps == {RetentionDays * OneDay}

NextRetention ==
  \/ StartInteraction([sc |-> TRUE, command |-> "analyze", description |-> "security"],
                      MainRec, CtxSmall)
  \/ EndInteraction(TRUE, "none")
  \/ \E iid \in DOMAIN interactions : RecordFeedback(iid, 4)
  \/ \E iid \in DOMAIN interactions : UpdateLearningFromFeedback(iid, TRUE, 1, 5)
  \/ CleanupOldData(RetentionDays)
  \/ \E d \in RetentionSteps : Tick(d)

SpecRetention == Init /\ [][NextRetention]_vars

NextWorkers ==
  \/ \E c \in Callers, description \in Descriptions :
        CallerEnter(c, "analyze", description, CtxSmall)
  \/ \E c \in Callers : \/ CallerCheckProcessing(c)
                        \/ CallerCheckAlive(c)
                        \/ CallerSetProcessing(c)
                        \/ CallerCreateThread(c)
                        \/ CallerStartThread(c)
  \/ \E t \in 1..Len(threads) : ThreadPop(t) \/ ThreadFinish(t)
  \/ ClearCache

SpecWorkers == InitCache /\ [][NextWorkers]_vars

\* C19: at every moment at most one background worker thread consumes the
\* enhancement queue, also when several caller threads take a cache miss at once.
C19_SingleWorker == Cardinality(Consumers) <= 1

\* C20: when the background task enqueued by a cache miss completes, the cache entry of
\* its key holds the recomputed recommendation in place of the quick one: its flags
\* and confidence are the recomputed ones.
C20_EntryHoldsRecomputed ==
  [][(/\ workerTask # NoTask
      /\ workerTask' = NoTask
      /\ pattern_cache[workerTask.cache_key] # NoEntry)
     => LET entry == pattern_cache'[workerTask.cache_key]
            recomputed == EnhancedResult(workerTask)
        IN /\ entry.flags = recomputed.enhanced_flags
           /\ entry.confidence = recomputed.enhanced_confidence]_vars

(***************************************************************************)
(* The command processor on top of the optimizer, the matcher and the      *)
(* learning components                                                     *)
(***************************************************************************)
NextProcess ==
  \/ \E found \in Installations : ImportPreprocessor(found)
  \/ \E kind \in RulesFiles : WriteRulesFile(kind)
  \/ ConstructProcessor
  \/ BreakComponents
  \/ \E ui \in UserInputs, quick_mode \in BOOLEAN : Process(ui, quick_mode, CtxSmall)
  \/ \E success \in BOOLEAN : RecordExecutionResult(success, "none")
  \/ \E description \in Descriptions : MatcherCall("analyze", description, CtxSmall)
  \/ WorkerPop
  \/ WorkerFinish
  \/ CorruptDb

SpecProcess == Init /\ [][NextProcess]_vars

\* C14: SCCommandProcessor.process never raises, and returns the input unchanged
\* whenever the input is not a '/sc:' command or an internal step has failed, also
\* after pattern_matcher, recommender and data_collector have been set to None.
C14_ProcessNeverBreaks ==
  lastCall.op = "process" =>
     /\ lastCall.raised = "none"
     /\ lastCall.result # {}
     /\ \A r \in lastCall.result :
           (~r.input.sc \/ r.error # "none") => ~r.output.changed

\* a '/sc:' command processed with the three components set to None fails inside
\* (pattern_matcher is None) and comes back unchanged
C14_Witness ==
  /\ lastCall.op = "process"
  /\ processor # NoProcessor
  /\ processor.pattern_matcher = "none"
  /\ ~processor.recommender
  /\ ~processor.data_collector
  /\ \E r \in lastCall.result :
        r.input.sc /\ r.error = "AttributeError" /\ ~r.output.changed

\* C16: every recommendation that process issues for a '/sc:' command opens exactly
\* one interaction record in the store and leaves it open for
\* record_execution_result, in quick mode as in learning mode.
C16_RecommendationOpensInteraction ==
  [][(/\ lastCall' # lastCall
      /\ lastCall'.op = "process"
      /\ \E r \in lastCall'.result : r.input.sc /\ r.output.changed)
     => /\ DOMAIN interactions' = DOMAIN interactions \cup {nextId}
        /\ nextId' = nextId + 1
        /\ processor'.current_interaction_id = nextId
        /\ current_interaction_id' = nextId]_vars

\* C18: with a rules file that exists but is malformed, constructing the matcher or
\* the processor succeeds and matching uses the built-in default pattern set.
C18_MalformedRulesFallBack ==
  [][(/\ lastCall' # lastCall
      /\ lastCall'.op \in {"SCCommandProcessor", "find_best_match"}
      /\ rulesFile \in {"invalid_yaml", "no_patterns"})
     => /\ lastCall'.raised = "none"
        /\ \A r \in lastCall'.result : r.rules = "default"]_vars

(***************************************************************************)
(* The four recommendation paths on a store with a usage history           *)
(***************************************************************************)
HistoryRow(success, ctx) == [PriorRow(success, "projA") EXCEPT !.project_context = ctx]

\* stores left by earlier sessions: enough interactions for personalization, with
\* every one successful, none successful, or mixed over two kinds of project; and a
\* store too small for personalization
RecommendStores ==
  {[history |-> [i \in 1..MinInteractionsForPersonalization |-> HistoryRow(TRUE, CtxSmall)],
    preferences |-> [k \in Projects \X Patterns |->
                       IF k = <<"projA", "analyze_security">> THEN 195 ELSE NoWeight]],
   [history |-> [i \in 1..MinInteractionsForPersonalization |-> HistoryRow(FALSE, CtxSmall)],
    preferences |-> [k \in Projects \X Patterns |->
                       IF k = <<"projA", "analyze_security">> THEN 12 ELSE NoWeight]],
   [history |-> [i \in 1..MinInteractionsForPersonalization |->
                   IF i % 2 = 1 THEN HistoryRow(TRUE, CtxBig) ELSE HistoryRow(FALSE, CtxSmall)],
    preferences |-> [k \in Projects \X Patterns |-> NoWeight]],
   [history |-> PriorInteractions,
    preferences |-> [k \in Projects \X Patterns |-> NoWeight]]}

InitRecommend ==
  /\ dbFile = "ok"
  /\ \E store \in RecommendStores :
        /\ interactions = store.history
        /\ user_preferences = store.preferences
  /\ nextId = Len(interactions) + 1
  /\ feedback = <<>>
  /\ pattern_success = [p \in Patterns |-> NoRow]
  /\ patternOrder = <<>>
  /\ now = Epoch
  /\ ticks = 0
  /\ current_interaction_id = NoId
  /\ interaction_start_time = NoTime
  /\ engine_cache = <<>>
  /\ cache_timestamp = 0
  /\ lastCall = Returned("none", {})
  /\ recLog = {}
  /\ batchRuns = 0
  /\ feedbackCalls = 0
  /\ pc = [p \in Procs |-> "idle"]
  /\ loc = [p \in Procs |-> [row |-> NoRow, success |-> FALSE]]
  /\ lockHolder = [i \in Instances |-> "none"]
  /\ callsMade = [p \in Procs |-> [total |-> 0, succ |-> 0]]
  /\ concBase = [total |-> 0, succ |-> 0]
  /\ OptimizerInit
  /\ ProcessorInit

\* The calls are made at one moment: of the parts of a confidence only the recency
\* score reads the clock, and it is 1.0 for every pattern younger than 30 days.
\* Reported to update_learning_from_feedback: a slow failure rated 2, a fast success
\* rated 5.
NextRecommend ==
  \/ \E command \in Commands, description \in MatcherDescriptions :
        MatcherCall(command, description, CtxBig)
  \/ \E command \in Commands : GetAdaptiveRecommendation(command, "security", CtxBig)
  \/ \E ctx \in Contexts :
        GetPersonalizedRecommendation([sc |-> TRUE, command |-> "analyze",
                                       description |-> "security"], ctx)
  \/ QuickRecommend("analyze", "security", CtxSmall)
  \/ LearnFromInteractions(30)
  \/ UpdateLearningFromFeedback(1, FALSE, 150, 2)
  \/ UpdateLearningFromFeedback(1, TRUE, 1, 5)

SpecRecommend == InitRecommend /\ [][NextRecommend]_vars

RecommendationCalls ==
  {"find_best_match", "get_adaptive_recommendation", "get_personalized_recommendation",
   "get_quick_recommendation"}

\* C13: every recommendation that find_best_match, get_adaptive_recommendation,
\* get_personalized_recommendation or get_quick_recommendation returns carries an
\* integer confidence between 0 and 100
C13_ConfidenceInRange ==
  lastCall.op \in RecommendationCalls =>
     \A r \in lastCall.result : r.confidence \in 0..100

\* find_best_match returned 95 for a text whose priority pattern scores above 100
\* before the cap
C13_Witness ==
  /\ lastCall.op = "find_best_match"
  /\ \E r \in lastCall.result :
        LET text == FullText(r.command, r.description)
            pri == FirstPriorityMatch(DefaultRules, text)
        IN /\ r.confidence = 95
           /\ \A k \in 1..Len(OrchestratorPatterns) : ~RegexMatches(OrchestratorPatterns[k], text)
           /\ pri # 0
           /\ LET score == MatchScore(text, DefaultRules[pri].keywords)
              IN DefaultRules[pri].confidence * (3 * score.of + 2 * score.matches)
                   > 100 * 4 * score.of

(***************************************************************************)
(* The recommendation cache at its capacity                                *)
(***************************************************************************)
\* keys of earlier requests for other descriptions
FillerKeys == {<<"analyze", ToString(n), "python_backend">> : n \in 1..(CacheCapacity - 2)}
OldKey == <<"analyze", "security", "python_backend">>

\* the entry that the cache miss of an earlier request stored at time at
EarlierEntry(description, at) ==
  LET quick == QuickPatternMatch("analyze", description, CtxSmall)
  IN [flags |-> quick.flags, confidence |-> quick.confidence, timestamp |-> at,
      enhanced |-> TRUE, enhanced_flags |-> <<>>, enhanced_confidence |-> 95]

\* the state after construction of everything but the optimizer's cache and worker
InitOutsideOptimizer ==
  /\ dbFile = "ok"
  /\ interactions = <<>>
  /\ nextId = 1
  /\ feedback = <<>>
  /\ EmptyStore
  /\ now = Epoch
  /\ ticks = 0
  /\ current_interaction_id = NoId
  /\ interaction_start_time = NoTime
  /\ engine_cache = <<>>
  /\ cache_timestamp = 0
  /\ lastCall = Returned("none", {})
  /\ recLog = {}
  /\ batchRuns = 0
  /\ feedbackCalls = 0
  /\ pc = [p \in Procs |-> "idle"]
  /\ loc = [p \in Procs |-> [row |-> NoRow, success |-> FALSE]]
  /\ lockHolder = [i \in Instances |-> "none"]
  /\ callsMade = [p \in Procs |-> [total |-> 0, succ |-> 0]]
  /\ callerPc = [c \in Callers |-> "idle"]
  /\ callerLoc = [c \in Callers |-> NoEntry]
  /\ background_thread = NoThread
  /\ threads = <<>>
  /\ ProcessorInit

\* one entry short of the capacity: the entry of OldKey stored first, the others
\* after it, every enhancement completed
InitEvict ==
  /\ InitOutsideOptimizer
  /\ pattern_cache = [k \in CacheKeys \cup FillerKeys |->
                        IF k = OldKey THEN EarlierEntry("security", Epoch - 2)
                        ELSE IF k \in FillerKeys THEN EarlierEntry(k[2], Epoch - 1)
                        ELSE NoEntry]
  /\ lastServed = [k \in CacheKeys \cup FillerKeys |->
                     IF k = OldKey THEN Epoch - 2
                     ELSE IF k \in FillerKeys THEN Epoch - 1 ELSE NoTime]
  /\ background_queue = <<>>
  /\ is_processing = TRUE
  /\ workerAlive = TRUE
  /\ workerTask = NoTask
  /\ createdAs = [k \in CacheKeys |->
                    IF k = OldKey
                    THEN [flags |-> EarlierEntry("security", Epoch - 2).flags,
                          confidence |-> EarlierEntry("security", Epoch - 2).confidence]
                    ELSE NoEntry]

NextEvict ==
  \/ \E command \in Commands, description \in Descriptions :
        QuickRecommend(command, description, CtxSmall)
  \/ Tick(1)

SpecEvict == InitEvict /\ [][NextEvict]_vars

\* C21: when an insert takes the recommendation cache above its capacity, exactly one
\* entry is evicted, no entry that is kept was last used (stored or returned by a hit)
\* earlier than the evicted one, and the cache holds no more than the capacity after
\* the insert.
C21_EvictsLeastRecentlyUsed ==
  [][(/\ lastCall' # lastCall
      /\ lastCall'.op = "get_quick_recommendation"
      /\ Cardinality(CachedKeys(pattern_cache)) = CacheCapacity
      /\ \E r \in lastCall'.result : ~r.hit /\ pattern_cache[r.key] = NoEntry)
     => /\ Cardinality(CachedKeys(pattern_cache')) <= CacheCapacity
        /\ \E e \in CachedKeys(pattern_cache) :
              /\ CachedKeys(pattern_cache') =
                   (CachedKeys(pattern_cache) \ {e})
                      \cup {r.key : r \in lastCall'.result}
              /\ \A o \in CachedKeys(pattern_cache) \ {e} :
                    lastServed[e] <= lastServed[o]]_vars

(***************************************************************************)
(* The three context adjustments of a flag string, applied once and twice  *)
(***************************************************************************)
AdjustBases ==
  {DefaultRules[k].base_flags : k \in 1..Len(DefaultRules)}
    \cup {<<"--persona-analyzer", "--think">>, <<"--think", "--uc">>, <<>>}

AdjustContexts ==
  [project_type : {"python_backend", "react_frontend"}, complexity : {"moderate", "complex"},
   file_count : {10, 60, 120}, project_size : {"small"}, languages : {{}, {"python"}},
   frameworks : {{}, {"react"}}]

\* one adjustment called on a flag string, and called again on what it returned
AdjustCall(op, base, ctx, once, twice) ==
  /\ lastCall' = Returned(op, {[base |-> base, ctx |-> ctx, once |-> once, twice |-> twice]})
  /\ UNCHANGED <<storeVars, clockVars, collectorVars, engineVars, recLog, batchRuns,
                 feedbackCalls, concVars, optVars, procVars>>

EngineAdjustCall(base, ctx) ==
  AdjustCall("AdaptiveLearningEngine._adjust_flags_for_context", base, ctx,
             EngineAdjustFlags(base, ctx), EngineAdjustFlags(EngineAdjustFlags(base, ctx), ctx))

OptAdjustCall(base, ctx) ==
  AdjustCall("PerformanceOptimizer._adjust_flags_for_context", base, ctx,
             OptAdjustFlags(base, ctx), OptAdjustFlags(OptAdjustFlags(base, ctx), ctx))

MatcherModifyCall(base, ctx) ==
  AdjustCall("PatternMatcher._apply_context_modifiers", base, ctx,
             ApplyContextModifiers(base, ctx),
             ApplyContextModifiers(ApplyContextModifiers(base, ctx), ctx))

NextAdjust ==
  \/ \E base \in AdjustBases, ctx \in AdjustContexts : EngineAdjustCall(base, ctx)
  \/ \E base \in AdjustBases, ctx \in AdjustContexts : OptAdjustCall(base, ctx)
  \/ \E base \in AdjustBases, ctx \in AdjustContexts : MatcherModifyCall(base, ctx)

SpecAdjust == InitCache /\ [][NextAdjust]_vars

\* C22: each of the three context adjustments of a flag string returns, applied to its
\* own result, that result again: no flag is added a second time.
C22_AdjustmentIdempotent ==
  lastCall.op \in {"AdaptiveLearningEngine._adjust_flags_for_context",
                   "PerformanceOptimizer._adjust_flags_for_context",
                   "PatternMatcher._apply_context_modifiers"} =>
     \A r \in lastCall.result : r.twice = r.once

(***************************************************************************)
(* One request on each recommendation path, on a new installation          *)
(***************************************************************************)
PathDescriptions == Descriptions \cup {ScenarioDescription}
PathKeys == Commands \X PathDescriptions \X ProjectTypes
CtxScenario == [project_type |-> "python_backend", complexity |-> "complex", file_count |-> 10]
PathContexts == {CtxScenario}

InitPaths ==
  /\ InitOutsideOptimizer
  /\ pattern_cache = [k \in PathKeys |-> NoEntry]
  /\ lastServed = [k \in PathKeys |-> NoTime]
  /\ createdAs = [k \in PathKeys |-> NoEntry]
  /\ background_queue = <<>>
  /\ is_processing = FALSE
  /\ workerAlive = FALSE
  /\ workerTask = NoTask

NextPaths ==
  \/ \E command \in Commands, description \in PathDescriptions, ctx \in PathContexts :
        MatcherCall(command, description, ctx)
  \/ \E command \in Commands, description \in PathDescriptions, ctx \in PathContexts :
        GetAdaptiveRecommendation(command, description, ctx)
  \/ \E command \in Commands, description \in PathDescriptions, ctx \in PathContexts :
        GetPersonalizedRecommendation([sc |-> TRUE, command |-> command,
                                       description |-> description], ctx)
  \/ \E command \in Commands, description \in PathDescriptions, ctx \in PathContexts :
        QuickRecommend(command, description, ctx)

SpecPaths == InitPaths /\ [][NextPaths]_vars

IsScenario(command, description, ctx) ==
  command = "analyze" /\ description = ScenarioDescription /\ ctx = CtxScenario

SecurityAndDepth(flags) ==
  /\ HasFlag(flags, "--persona-security")
  /\ HasFlag(flags, "--think-hard") \/ HasFlag(flags, "--ultrathink")

\* C23: for 'analyze find security vulnerabilities' in a complex python_backend project
\* the recommendation of the pattern matcher, of the learning engine, of the
\* personalized recommender and of the quick path carries --persona-security, one of
\* --think-hard and --ultrathink, and a confidence of at least 85.
C23_SecurityScenario ==
  /\ lastCall.op = "find_best_match" =>
        \A r \in lastCall.result :
           IsScenario(r.command, r.description, r.ctx)
              => SecurityAndDepth(r.flags) /\ r.confidence >= 85
  /\ lastCall.op = "get_quick_recommendation" =>
        \A r \in lastCall.result :
           IsScenario(r.key[1], r.key[2], r.ctx)
              => SecurityAndDepth(r.flags) /\ r.confidence >= 85
  /\ lastCall.op = "get_adaptive_recommendation" =>
        \A q \in recLog :
           IsScenario(q.command, q.description, q.ctx)
              => SecurityAndDepth(q.flags) /\ q.confidence >= 85
  /\ lastCall.op = "get_personalized_recommendation" =>
        \A q \in recLog :
           IsScenario(q.command, q.description, q.ctx)
              => \A r \in lastCall.result : r.confidence >= 85

\* no keyword of a rule of the pattern matcher occurs in the text
MatcherNoOverlap(command, description) ==
  LET text == FullText(command, description)
  IN /\ \A k \in 1..Len(OrchestratorPatterns) : ~RegexMatches(OrchestratorPatterns[k], text)
     /\ \A k \in 1..Len(DefaultRules) : MatchScore(text, DefaultRules[k].keywords).matches = 0

\* C24: a request whose command and description share no keyword with any pattern of
\* the path that serves it gets the default of its command with a confidence of at
\* most 75, on the pattern matcher, on the learning engine (no candidate pattern) and
\* on the quick path.
C24_DefaultAtMost75 ==
  /\ lastCall.op = "find_best_match" =>
        \A r \in lastCall.result :
           MatcherNoOverlap(r.command, r.description)
              => /\ r.flags = DefaultRecommendation(r.command, r.ctx).flags
                 /\ r.confidence <= 75
  /\ lastCall.op = "get_quick_recommendation" =>
        \A r \in lastCall.result :
           (~r.hit /\ QuickKeywordHits(r.key[1], r.key[2]) = {})
              => /\ r.flags = OptAdjustFlags(QuickCommandDefault(r.key[1], r.ctx).flags, r.ctx)
                 /\ r.confidence <= 75
  /\ lastCall.op = "get_adaptive_recommendation" =>
        \A r \in lastCall.result :
           r.used = {}
              => \A q \in recLog : /\ r.flags = FallbackRecommendation(q.command).flags
                                   /\ r.confidence <= 75

\* the rule find_best_match would select by score alone: the earliest declared rule
\* among those with the highest score above 0, or 0
HighestScoreRule(text) == BestGeneralMatch(DefaultRules, text)

\* C25: when no tier-1 regular expression matches, find_best_match on the built-in
\* rules answers with the rule whose matched / total keyword score is the highest of
\* all declared rules, the earliest declared of them on a tie, and with the default of
\* the command when no rule scores above 0.
C25_HighestScoreSelected ==
  lastCall.op = "find_best_match" =>
     \A r \in lastCall.result :
        LET text == FullText(r.command, r.description)
            best == HighestScoreRule(text)
        IN (/\ r.rules = "default"
            /\ \A k \in 1..Len(OrchestratorPatterns) : ~RegexMatches(OrchestratorPatterns[k], text))
           => r.flags = IF best = 0 THEN DefaultRecommendation(r.command, r.ctx).flags
                        ELSE ApplyContextModifiers(DefaultRules[best].base_flags, r.ctx)

(***************************************************************************)
(* The enhancement queue under threads that keep being scheduled           *)
(***************************************************************************)
\* what a caller thread does after the append of _queue_background_enhancement
CallerStep(c) ==
  \/ CallerCheckProcessing(c)
  \/ CallerCheckAlive(c)
  \/ CallerSetProcessing(c)
  \/ CallerCreateThread(c)
  \/ CallerStartThread(c)

\* the background threads the callers can have created
ThreadIds == 1..(2 * MaxCallers)

\* one turn of the loop of _background_processor in thread t
ProcessorStep(t) == t \in 1..Len(threads) /\ (ThreadPop(t) \/ ThreadFinish(t))

\* a thread inside get_quick_recommendation goes on, and each background thread goes on
NextDrain ==
  \/ \E c \in Callers, description \in Descriptions :
        CallerEnter(c, "analyze", description, CtxSmall)
  \/ \E c \in Callers : CallerStep(c)
  \/ \E t \in ThreadIds : ProcessorStep(t)

SpecDrain ==
  /\ InitCache
  /\ [][NextDrain]_vars
  /\ \A c \in Callers : WF_vars(CallerStep(c))
  /\ \A t \in ThreadIds : WF_vars(ProcessorStep(t))

Holding == {t \in 1..Len(threads) : threads[t].task # NoTask}

\* C26: every enhancement task appended to background_queue is eventually taken from
\* it and processed to completion: while the queue holds a task a background thread
\* comes to hold one, and every thread that holds a task comes to finish it, so that
\* the task at the head of the queue is taken.
C26_QueueDrains ==
  /\ (Len(background_queue) > 0) ~> (Holding # {})
  /\ \A t \in ThreadIds : (t \in Holding) ~> (t \notin Holding)
  /\ [](Len(threads) <= 2 * MaxCallers)

\* a background thread that has completed the task of one key holds the task of
\* another key, enqueued after the queue was drained
C26_Witness ==
  /\ background_queue = <<>>
  /\ \E t \in Consumers :
        /\ threads[t].task # NoTask
        /\ \E k \in CacheKeys : /\ k # threads[t].task.cache_key
                                /\ pattern_cache[k] # NoEntry
                                /\ pattern_cache[k].enhanced

(***************************************************************************)
(* An enhancement task that completes after its cache entry has gone       *)
(***************************************************************************)
\* one more key stored together with the filler keys
FullKey == <<"analyze", ToString(CacheCapacity - 1), "python_backend">>

\* the cache at its capacity, the oldest entry as old as the TTL and its enhancement
\* still waiting in the queue
InitLateTask ==
  /\ InitOutsideOptimizer
  /\ pattern_cache = [k \in CacheKeys \cup FillerKeys \cup {FullKey} |->
                        IF k = OldKey
                        THEN [EarlierEntry("security", Epoch - OptCacheTTL) EXCEPT
                                !.enhanced = FALSE, !.enhanced_confidence = 0]
                        ELSE IF k \in FillerKeys \cup {FullKey} THEN EarlierEntry(k[2], Epoch - 1)
                        ELSE NoEntry]
  /\ lastServed = [k \in CacheKeys \cup FillerKeys \cup {FullKey} |->
                     IF k = OldKey THEN Epoch - OptCacheTTL
                     ELSE IF k \in FillerKeys \cup {FullKey} THEN Epoch - 1 ELSE NoTime]
  /\ background_queue = <<[context |-> CtxSmall, cache_key |-> OldKey,
                           timestamp |-> Epoch - OptCacheTTL]>>
  /\ is_processing = TRUE
  /\ workerAlive = TRUE
  /\ workerTask = NoTask
  /\ createdAs = [k \in CacheKeys |->
                    IF k = OldKey
                    THEN [flags |-> EarlierEntry("security", Epoch - OptCacheTTL).flags,
                          confidence |-> EarlierEntry("security", Epoch - OptCacheTTL).confidence]
                    ELSE NoEntry]

NextLateTask ==
  \/ \E description \in Descriptions : QuickRecommend("analyze", description, CtxSmall)
  \/ WorkerPop
  \/ WorkerFinish
  \/ ClearCache

SpecLateTask == InitLateTask /\ [][NextLateTask]_vars

\* C27: the completion of a background enhancement task never creates a cache entry:
\* the keys that have an entry are the same before and after, no entry gets a new
\* timestamp, and a key that was cleared, evicted or dropped as expired before the
\* completion has no entry after it.
C27_CompletionCreatesNoEntry ==
  [][(workerTask # NoTask /\ workerTask' = NoTask)
     => /\ CachedKeys(pattern_cache') = CachedKeys(pattern_cache)
        /\ \A k \in CachedKeys(pattern_cache) :
              pattern_cache'[k].timestamp = pattern_cache[k].timestamp
        /\ pattern_cache[workerTask.cache_key] = NoEntry
              => pattern_cache'[workerTask.cache_key] = NoEntry]_vars

\* the worker is completing the task of the oldest key after an insert into the full
\* cache has evicted that key
C27_Witness ==
  /\ workerTask # NoTask
  /\ workerTask.cache_key = OldKey
  /\ pattern_cache[OldKey] = NoEntry
  /\ Cardinality(CachedKeys(pattern_cache)) = CacheCapacity

\* C28: a get_quick_recommendation call that hits the cache returns the flags and the
\* confidence that _quick_pattern_match computes for the command, the description and
\* the context of this call; a request never gets the flags cached for a context of
\* another complexity or file_count.
C28_HitMatchesFreshComputation ==
  lastCall.op = "get_quick_recommendation" =>
     \A r \in lastCall.result :
        r.hit => LET fresh == QuickPatternMatch(r.key[1], r.key[2], r.ctx)
                 IN r.flags = fresh.flags /\ r.confidence = fresh.confidence

(***************************************************************************)
(* Feedback that reports a failed outcome                                  *)
(***************************************************************************)
\* failed executions: fast and rated high, fast and unrated, average, slow and rated low
FailedOutcomes ==
  {[success |-> FALSE, execution_time |-> 1, rating |-> 5],
   [success |-> FALSE, execution_time |-> 1, rating |-> NoRating],
   [success |-> FALSE, execution_time |-> 45, rating |-> 3],
   [success |-> FALSE, execution_time |-> 150, rating |-> 2]}

NextFailed ==
  \/ \E command \in Commands : GetAdaptiveRecommendation(command, "security", CtxBig)
  \/ \E iid \in 1..(Len(PriorInteractions) + 1), o \in FailedOutcomes :
        UpdateLearningFromFeedback(iid, o.success, o.execution_time, o.rating)
  \/ LearnFromInteractions(30)

SpecFailed == InitEngine /\ [][NextFailed]_vars

SuccessfulUses(rows, p) == IF rows[p] = NoRow THEN 0 ELSE rows[p].successful_uses

\* C29: update_learning_from_feedback with success = False never stores a preference
\* weight above the one the pattern had (1.0 if none was stored) and never increments
\* the successful_uses of the pattern, whatever the execution time and the rating.
C29_FailureNeverCountsInFavour ==
  [][(lastCall'.op = "update_learning_from_feedback" /\ feedbackCalls' # feedbackCalls) =>
        \A r \in lastCall'.result :
           ~r.success =>
              /\ user_preferences'[<<r.project, r.pattern>>] <= r.old
              /\ SuccessfulUses(pattern_success', r.pattern)
                    <= SuccessfulUses(pattern_success, r.pattern)]_vars

\* C30: a recommendation computed on a freshly loaded pattern cache scores every
\* candidate pattern with the preference weight stored for the user and the project of
\* the request, 1.0 if none is stored; a weight stored for another project has no part
\* in it.
C30_PreferenceOfOwnProject ==
  [][(/\ lastCall'.op = "get_adaptive_recommendation"
      /\ recLog' # recLog \/ lastCall' # lastCall
      /\ now - cache_timestamp > CacheTTL)
     => \A rec \in lastCall'.result :
           \A u \in rec.used : u.preference = StoredPreference(CurrentProject, u.pattern)]_vars

=============================================================================
